---- MODULE Spec2Model ----
(***************************************************************************)
(* The link database of darc (src/darc/db.py): the hostname set and the    *)
(* two scored stage queues, in the ordered-set (Redis) backend and in the  *)
(* relational (peewee) backend.                                            *)
(*                                                                         *)
(* Spec      one caller, every public operation of db.py as one action.    *)
(* SpecProc  several processes on the Redis backend, one action per Redis  *)
(*           round trip (lock acquire, command, lock release).             *)
(* SpecFail  one call of a public operation of db.py, one action per       *)
(*           attempt of a backend call, any of which may fail.             *)
(* SpecCrawl the workers of src/darc/crawl.py, crawler and loader, one     *)
(*           action per invocation, with what the network, the hooks and   *)
(*           the artifact store answer chosen freely.                      *)
(* SpecLink  the classifier of crawl.py (request_session, request_driver)  *)
(*           applied to host names.                                        *)
(* SpecBoth  the save, drop and load calls of db.py applied to the Redis   *)
(*           and the relational backend side by side.                      *)
(* SpecBulk  batch saves, with the backend writes each one issues.         *)
(* SpecFailFair and SpecProcStall are SpecFail and SpecProc with fairness: *)
(*           an attempt that eventually succeeds; processes that keep      *)
(*           running outside the critical sections.                        *)
(*                                                                         *)
(* Time is counted in ticks; scores and timestamps are tick counts, and    *)
(* TIME_CACHE is a number of ticks (None when DARC_TIME_CACHE is unset).   *)
(***************************************************************************)
EXTENDS Integers, Sequences, FiniteSets

VARIABLES
    FLAG_DB,             \* darc.const.FLAG_DB: relational backend selected
    REDIS_LOCK,          \* db.py:63
    TIME_CACHE,          \* darc.const.TIME_CACHE: ticks, or None
    now,                 \* the wall clock (time.time() / datetime.now())
    queue_hostname,      \* Redis set 'queue_hostname'
    queue_requests,      \* Redis sorted set 'queue_requests': {[member, score]}
    queue_selenium,      \* Redis sorted set 'queue_selenium'
    HostnameQueueModel,  \* table: {[hostname, timestamp]}
    RequestsQueueModel,  \* table: {[text, link, timestamp]}
    SeleniumQueueModel,  \* table: {[text, link, timestamp]}
    last,                \* Spec: the call just made and what it returned
    drawn,               \* Spec, history: per stage and URL, when a deferring
                         \* load last drew it with no save or drop since (or None)
    namespace,           \* the namespace a run exercises: the three share no key
                         \* and no table, so the runs of one are runs of the whole
    lock,                \* SpecProc: per lock name, the set of its holders
    pc,                  \* SpecProc: per process, its position
    loc,                 \* SpecProc: per process, its local variables
    hist,                \* SpecProc, history: have_hostname results per host
    call,                \* SpecFail: the call under way, its position and outcome
    QUEUE_REQUESTS,      \* crawl.py:24, the stage-1 queue: the entries put, in order
    QUEUE_SELENIUM,      \* crawl.py:24, the stage-2 queue: the entries put, in order
    work,                \* SpecCrawl / SpecLink: the invocation just made
    invoked              \* SpecCrawl: the number of worker invocations so far

vars == <<FLAG_DB, REDIS_LOCK, TIME_CACHE, now, queue_hostname, queue_requests,
          queue_selenium, HostnameQueueModel, RequestsQueueModel,
          SeleniumQueueModel, last, drawn, namespace, lock, pc, loc, hist,
          call, QUEUE_REQUESTS, QUEUE_SELENIUM, work, invoked>>

----------------------------------------------------------------------------
(* Bounds *)

\* number of distinct URLs
NUrls == 2
\* the clock runs from 0 to MaxTime
MaxTime == 3
\* TIME_CACHE, when DARC_TIME_CACHE is set, is 1..MaxCache ticks
MaxCache == 2

\* Python's None, for TIME_CACHE, for a score left out, for an absent time
None == -1

\* db.py:76  (DARC_BULK_SIZE, scaled down so that a batch is split)
BULK_SIZE == 1
\* db.py:79-81  (DARC_MAX_POOL, scaled down so that the limit cuts a draw)
MAX_POOL == 1

Urls == 1..NUrls
\* two consecutive URLs share a host
HostOf(u) == (u + 1) \div 2
\* darc.link.parse_link: the Link of a URL (url, host; name is a function of url)
parse_link(u) == [url |-> u, host |-> HostOf(u)]
Links == {parse_link(u) : u \in Urls}
Hosts == {l.host : l \in Links}

\* pickle.dumps / pickle.loads of a Link: an opaque blob holding the link
pickle_dumps(link) == <<"pickle", link>>
pickle_loads(blob) == blob[2]

Min(a, b) == IF a <= b THEN a ELSE b

----------------------------------------------------------------------------
(* The Redis commands db.py issues through _redis_command, as Redis        *)
(* executes them: each is one atomic step of the server.                   *)

\* SADD key member: the new set and the number of members added
SADD(set, member) ==
    [set |-> set \cup {member}, code |-> IF member \in set THEN 0 ELSE 1]

\* SREM key member
SREM(set, member) == set \ {member}

\* ZADD key [NX|XX] score member ...: mapping is the dict {member: score}
ZADD(zset, mapping, nx, xx) ==
    LET old(m) == {e \in zset : e.member = m}
        kept == {e \in zset : e.member \notin DOMAIN mapping \/ nx}
        todo == {m \in DOMAIN mapping : IF old(m) = {} THEN ~xx ELSE ~nx}
    IN  kept \cup {[member |-> m, score |-> mapping[m]] : m \in todo}

\* ZREM key member
ZREM(zset, member) == {e \in zset : e.member # member}

\* Redis orders a sorted set by score, then by member bytes; the bytes of a
\* pickled Link are ordered here as its URL is.
ZLess(a, b) ==
    \/ a.score < b.score
    \/ a.score = b.score /\ pickle_loads(a.member).url < pickle_loads(b.member).url

RECURSIVE ZSorted(_)
ZSorted(zset) ==
    IF zset = {} THEN <<>>
    ELSE LET first == CHOOSE e \in zset : \A f \in zset \ {e} : ZLess(e, f)
         IN  <<first.member>> \o ZSorted(zset \ {first})

\* ZRANGEBYSCORE key min max LIMIT start num: the members, lowest score first
ZRANGEBYSCORE(zset, min, max, start, num) ==
    LET hits == ZSorted({e \in zset : min <= e.score /\ e.score <= max})
    IN  SubSeq(hits, start + 1, Min(Len(hits), start + num))

----------------------------------------------------------------------------
(* The Redis backend, lock-free (REDIS_LOCK off: _redis_get_lock returns a *)
(* nullcontext), each function as the commands it issues in order.         *)

\* a variant with flag = bool(code)
_have_hostname_redis_FlagIsCode(set, link) ==
    LET code == SADD(set, link.host).code
    IN  [set |-> SADD(set, link.host).set, flag |-> code # 0]

\* db.py:212-227: flag = not bool(code)
_have_hostname_redis(set, link) ==
    LET code == SADD(set, link.host).code
    IN  [set |-> SADD(set, link.host).set, flag |-> ~(code # 0)]

\* db.py:262-272
_drop_hostname_redis(set, link) == SREM(set, link.host)

\* db.py:307-317
_drop_requests_redis(zset, link) == ZREM(zset, pickle_dumps(link))

\* db.py:352-362
_drop_selenium_redis(zset, link) == ZREM(zset, pickle_dumps(link))

\* a variant that pickles the score along with the link, so that one link
\* saved at two scores makes two members
Mapping_ScoreInMember(chunk, score) ==
    [m \in {<<"pickle", chunk[k], score>> : k \in DOMAIN chunk} |-> score]

\* {pickle.dumps(link): score for link in chunk}
Mapping(chunk, score) ==
    [m \in {pickle_dumps(chunk[k]) : k \in DOMAIN chunk} |-> score]

\* db.py:511-515 / 679-683: one round of the batch loop, the ZADD of the group
\* entries[i:i + BULK_SIZE]  (i is 0-based as in the source)
ZaddGroup(zset, entries, i, score, nx, xx) ==
    LET chunk == SubSeq(entries, i + 1, Min(Len(entries), i + BULK_SIZE))
    IN  ZADD(zset, Mapping(chunk, score), nx, xx)

\* db.py:510-516: for i in range(0, len(entries), BULK_SIZE)
RECURSIVE _save_requests_redis_bulk(_, _, _, _, _, _)
_save_requests_redis_bulk(zset, entries, i, score, nx, xx) ==
    IF i >= Len(entries) THEN zset
    ELSE _save_requests_redis_bulk(ZaddGroup(zset, entries, i, score, nx, xx),
                                   entries, i + BULK_SIZE, score, nx, xx)

\* a variant that drops the nx and xx keywords on the way to ZADD
_save_requests_redis_NoModes(zset, entries, single, score, nx, xx, time) ==
    LET s == IF score = None THEN time ELSE score
    IN  IF ~single
        THEN _save_requests_redis_bulk(zset, entries, 0, s, FALSE, FALSE)
        ELSE ZADD(zset, Mapping(<<entries>>, s), FALSE, FALSE)

\* db.py:487-522: entries is a list of Links, or one Link when single
_save_requests_redis(zset, entries, single, score, nx, xx, time) ==
    LET s == IF score = None THEN time ELSE score
    IN  IF ~single
        THEN _save_requests_redis_bulk(zset, entries, 0, s, nx, xx)
        ELSE ZADD(zset, Mapping(<<entries>>, s), nx, xx)

\* db.py:677-684
RECURSIVE _save_selenium_redis_bulk(_, _, _, _, _, _)
_save_selenium_redis_bulk(zset, entries, i, score, nx, xx) ==
    IF i >= Len(entries) THEN zset
    ELSE _save_selenium_redis_bulk(ZaddGroup(zset, entries, i, score, nx, xx),
                                   entries, i + BULK_SIZE, score, nx, xx)

\* db.py:645-690: returns at once on an empty list
_save_selenium_redis(zset, entries, single, score, nx, xx, time) ==
    LET s == IF score = None THEN time ELSE score
    IN  IF ~single
        THEN IF entries = <<>> THEN zset
             ELSE _save_selenium_redis_bulk(zset, entries, 0, s, nx, xx)
        ELSE ZADD(zset, Mapping(<<entries>>, s), nx, xx)

\* a variant that reads up to the clock whatever TIME_CACHE is
MaxScore_Now(time) == time

\* db.py:781-787 / 896-902: the highest score a load reads
MaxScore(time) == IF TIME_CACHE = None THEN time ELSE time - TIME_CACHE

\* a variant that re-scores to the clock, deferring nothing
NewScore_Now(time) == time

\* db.py:794 / 909: the score a load gives what it read
NewScore(time) == time + (IF TIME_CACHE = None THEN 0 ELSE TIME_CACHE)

\* [pickle.loads(link) for link in ...]
LoadsAll(blobs) == [k \in DOMAIN blobs |-> pickle_loads(blobs[k])]

\* a variant that returns the pool without re-scoring it
_load_requests_redis_NoRescore(zset, time) ==
    LET link_pool == LoadsAll(ZRANGEBYSCORE(zset, 0, MaxScore(time), 0, MAX_POOL))
    IN  [link_pool |-> link_pool, zset |-> zset]

\* a variant that takes the returned entries out of the queue
_load_requests_redis_Pop(zset, time) ==
    LET hits == ZRANGEBYSCORE(zset, 0, MaxScore(time), 0, MAX_POOL)
    IN  [link_pool |-> LoadsAll(hits),
         zset |-> {e \in zset : \A k \in DOMAIN hits : hits[k] # e.member}]

\* db.py:768-801, the lock acquired: the pool read, then re-scored
_load_requests_redis(zset, time) ==
    LET link_pool == LoadsAll(ZRANGEBYSCORE(zset, 0, MaxScore(time), 0, MAX_POOL))
    IN  [link_pool |-> link_pool,
         zset |-> IF TIME_CACHE # None
                  THEN _save_requests_redis(zset, link_pool, FALSE, NewScore(time),
                                            FALSE, FALSE, time)
                  ELSE zset]

\* db.py:879-916
_load_selenium_redis(zset, time) ==
    LET link_pool == LoadsAll(ZRANGEBYSCORE(zset, 0, MaxScore(time), 0, MAX_POOL))
    IN  [link_pool |-> link_pool,
         zset |-> IF TIME_CACHE # None
                  THEN _save_selenium_redis(zset, link_pool, FALSE, NewScore(time),
                                            FALSE, FALSE, time)
                  ELSE zset]

----------------------------------------------------------------------------
(* The relational backend: a table is the set of its rows.                 *)

\* the column a stage table is unique on
UniqueKey(row) == row.text

\* dict(text=link.url, hash=link.name, link=link, timestamp=score)
Row(link, score) == [text |-> link.url, link |-> link, timestamp |-> score]

Rows(entries, score) == [k \in DOMAIN entries |-> Row(entries[k], score)]

\* a variant in which a clashing row is overwritten
insert_many_ignore_Overwrite(table, rows) ==
    {x \in table : \A k \in DOMAIN rows : UniqueKey(x) # UniqueKey(rows[k])}
        \cup {rows[k] : k \in DOMAIN rows}

\* INSERT ... ON CONFLICT IGNORE, row by row
RECURSIVE insert_many_ignore(_, _)
insert_many_ignore(table, rows) ==
    IF rows = <<>> THEN table
    ELSE LET r == Head(rows)
             clash == \E x \in table : UniqueKey(x) = UniqueKey(r)
         IN  insert_many_ignore(IF clash THEN table ELSE table \cup {r}, Tail(rows))

\* REPLACE INTO, row by row: the clashing row goes, the new row comes
RECURSIVE replace_many(_, _)
replace_many(table, rows) ==
    IF rows = <<>> THEN table
    ELSE LET r == Head(rows)
         IN  replace_many({x \in table : UniqueKey(x) # UniqueKey(r)} \cup {r}, Tail(rows))

\* UPDATE ... SET timestamp = score WHERE text IN texts
update_where_in(table, texts, score) ==
    {IF x.text \in texts THEN [x EXCEPT !.timestamp = score] ELSE x : x \in table}

\* peewee.chunked(rows, n): the number of batches, and the k-th batch (from 0)
ChunkCount(rows, n) == (Len(rows) + n - 1) \div n
Chunk(rows, n, k) == SubSeq(rows, k * n + 1, Min(Len(rows), (k + 1) * n))

\* db.py:435-439: every round inserts the whole list insert_many, not batch
RECURSIVE _save_requests_db_nx(_, _, _)
_save_requests_db_nx(table, insert_many, k) ==
    IF k >= ChunkCount(insert_many, BULK_SIZE) THEN table
    ELSE _save_requests_db_nx(insert_many_ignore(table, insert_many), insert_many, k + 1)

\* db.py:457-458
RECURSIVE _save_requests_db_replace(_, _, _)
_save_requests_db_replace(table, rows, k) ==
    IF k >= ChunkCount(rows, BULK_SIZE) THEN table
    ELSE _save_requests_db_replace(replace_many(table, Chunk(rows, BULK_SIZE, k)),
                                   rows, k + 1)

\* db.py:402-484
_save_requests_db(table, entries, single, score, nx, xx, time) ==
    LET s == IF score = None THEN time ELSE score
    IN  IF ~single
        THEN IF entries = <<>> THEN table
             ELSE IF nx THEN _save_requests_db_nx(table, Rows(entries, s), 0)
             ELSE IF xx THEN update_where_in(table, {entries[k].url : k \in DOMAIN entries}, s)
             ELSE _save_requests_db_replace(table, Rows(entries, s), 0)
        ELSE IF nx THEN insert_many_ignore(table, <<Row(entries, s)>>)
        ELSE IF xx THEN update_where_in(table, {entries.url}, s)
        ELSE replace_many(table, <<Row(entries, s)>>)

\* db.py:593-597
RECURSIVE _save_selenium_db_nx(_, _, _)
_save_selenium_db_nx(table, insert_many, k) ==
    IF k >= ChunkCount(insert_many, BULK_SIZE) THEN table
    ELSE _save_selenium_db_nx(insert_many_ignore(table, insert_many), insert_many, k + 1)

\* db.py:615-616
RECURSIVE _save_selenium_db_replace(_, _, _)
_save_selenium_db_replace(table, rows, k) ==
    IF k >= ChunkCount(rows, BULK_SIZE) THEN table
    ELSE _save_selenium_db_replace(replace_many(table, Chunk(rows, BULK_SIZE, k)),
                                   rows, k + 1)

\* db.py:560-642
_save_selenium_db(table, entries, single, score, nx, xx, time) ==
    LET s == IF score = None THEN time ELSE score
    IN  IF ~single
        THEN IF entries = <<>> THEN table
             ELSE IF nx THEN _save_selenium_db_nx(table, Rows(entries, s), 0)
             ELSE IF xx THEN update_where_in(table, {entries[k].url : k \in DOMAIN entries}, s)
             ELSE _save_selenium_db_replace(table, Rows(entries, s), 0)
        ELSE IF nx THEN insert_many_ignore(table, <<Row(entries, s)>>)
        ELSE IF xx THEN update_where_in(table, {entries.url}, s)
        ELSE replace_many(table, <<Row(entries, s)>>)

\* a variant with get in place of get_or_none: DoesNotExist on an absent row
_drop_requests_db_Get(table, link) ==
    [table |-> {x \in table : x.text # link.url},
     raised |-> ~\E x \in table : x.text = link.url]

\* db.py:292-304: get_or_none, then delete_instance; raised tells whether the
\* call raised
_drop_requests_db(table, link) ==
    [table |-> {x \in table : x.text # link.url}, raised |-> FALSE]

\* db.py:337-349
_drop_selenium_db(table, link) ==
    [table |-> {x \in table : x.text # link.url}, raised |-> FALSE]

\* db.py:247-259
_drop_hostname_db(table, link) ==
    [table |-> {x \in table : x.hostname # link.host}, raised |-> FALSE]

\* db.py:186-209: get_or_create, then model.timestamp > threshold.  With
\* TIME_CACHE None the threshold is the int -1, and comparing the stored
\* datetime with an int raises TypeError.
_have_hostname_db(table, link, timestamp) ==
    LET found == {x \in table : x.hostname = link.host}
        created == found = {}
        model == CHOOSE x \in found : TRUE
    IN  IF created
        THEN [table |-> table \cup {[hostname |-> link.host, timestamp |-> timestamp]},
              flag |-> FALSE, raised |-> FALSE]
        ELSE IF TIME_CACHE = None
        THEN [table |-> table, flag |-> FALSE, raised |-> TRUE]
        ELSE [table |-> table, flag |-> model.timestamp > timestamp - TIME_CACHE,
              raised |-> FALSE]

\* a variant with timestamp < max_score
SelectDue_Strict(table, max_score) ==
    LET due == {x \in table : x.timestamp < max_score}
        n == Min(MAX_POOL, Cardinality(due))
    IN  {S \in SUBSET due :
            /\ Cardinality(S) = n
            /\ \A a \in S, b \in due \ S : a.timestamp <= b.timestamp}

\* db.py:753-760 / 864-871: SELECT ... WHERE timestamp <= max_score ORDER BY
\* timestamp LIMIT MAX_POOL.  The order among equal timestamps is the
\* database's choice, so the answer is any of these sets of rows.
SelectDue(table, max_score) ==
    LET due == {x \in table : x.timestamp <= max_score}
        n == Min(MAX_POOL, Cardinality(due))
    IN  {S \in SUBSET due :
            /\ Cardinality(S) = n
            /\ \A a \in S, b \in due \ S : a.timestamp <= b.timestamp}

\* the rows of a query answer as a list, in timestamp order
RECURSIVE RowList(_)
RowList(S) ==
    IF S = {} THEN <<>>
    ELSE LET first == CHOOSE a \in S : \A b \in S \ {a} :
                          \/ a.timestamp < b.timestamp
                          \/ a.timestamp = b.timestamp /\ a.text < b.text
         IN  <<first.link>> \o RowList(S \ {first})

\* db.py:731-765, given the query's answer
_load_requests_db(table, answer, time) ==
    LET link_pool == RowList(answer)
    IN  [link_pool |-> link_pool,
         table |-> IF TIME_CACHE # None
                   THEN _save_requests_db(table, link_pool, FALSE, NewScore(time),
                                          FALSE, FALSE, time)
                   ELSE table]

\* db.py:842-876
_load_selenium_db(table, answer, time) ==
    LET link_pool == RowList(answer)
    IN  [link_pool |-> link_pool,
         table |-> IF TIME_CACHE # None
                   THEN _save_selenium_db(table, link_pool, FALSE, NewScore(time),
                                          FALSE, FALSE, time)
                   ELSE table]

----------------------------------------------------------------------------
(* Spec: one caller; each public function of db.py is one action.          *)

\* explicit scores a caller passes (score=0 marks an entry as due at once)
Scores == {0}
\* the links of a set as a list, in URL order
RECURSIVE ListOf(_)
ListOf(S) ==
    IF S = {} THEN <<>>
    ELSE LET first == CHOOSE l \in S : \A m \in S : l.url <= m.url
         IN  <<first>> \o ListOf(S \ {first})
\* batches: every set of links as a list (the empty list included), and every
\* link twice in one list
Batches == {ListOf(S) : S \in SUBSET Links} \cup {<<l, l>> : l \in Links}
Namespaces == {"hostname", "requests", "selenium"}
\* (nx, xx): replace, nx, xx; the two modifiers are mutually exclusive
Modes == {<<FALSE, FALSE>>, <<TRUE, FALSE>>, <<FALSE, TRUE>>}
Stages == {"requests", "selenium"}

Range(seq) == {seq[k] : k \in DOMAIN seq}
\* the Links a save call names
Named(entries, single) == IF single THEN {entries} ELSE Range(entries)

\* the record of a call: its name, the links it returned (a load), the flag
\* it returned (have_hostname), whether it raised; and, as history,
\* whether the key it names was there before (found) and which returned links
\* had been drawn before with no save or drop since (again)
Call(op, links, flag, exc, found, again) ==
    [op |-> op, links |-> links, flag |-> flag, exc |-> exc, found |-> found,
     again |-> again]

\* the entries of a stage queue in the selected backend, as (url, score) pairs
Entries(stage) ==
    IF FLAG_DB
    THEN {[url |-> x.text, score |-> x.timestamp] :
            x \in IF stage = "requests" THEN RequestsQueueModel ELSE SeleniumQueueModel}
    ELSE {[url |-> pickle_loads(e.member).url, score |-> e.score] :
            e \in IF stage = "requests" THEN queue_requests ELSE queue_selenium}
Queued(stage, link) == \E e \in Entries(stage) : e.url = link.url
HostKnown(link) ==
    IF FLAG_DB THEN \E x \in HostnameQueueModel : x.hostname = link.host
    ELSE link.host \in queue_hostname

Forget(stage, links) ==
    [drawn EXCEPT ![stage] = [u \in Urls |-> IF parse_link(u) \in links THEN None ELSE @[u]]]
Remember(stage, links) ==
    IF TIME_CACHE = None THEN drawn
    ELSE [drawn EXCEPT ![stage] =
             [u \in Urls |-> IF parse_link(u) \in links THEN now ELSE @[u]]]
Again(stage, links) == {l \in links : drawn[stage][l.url] # None}

config == <<FLAG_DB, REDIS_LOCK, TIME_CACHE, namespace>>
redis_state == <<queue_hostname, queue_requests, queue_selenium>>
db_state == <<HostnameQueueModel, RequestsQueueModel, SeleniumQueueModel>>
proc_state == <<lock, pc, loc, hist>>
crawl_state == <<QUEUE_REQUESTS, QUEUE_SELENIUM, work, invoked>>

Init ==
    /\ FLAG_DB \in BOOLEAN
    /\ REDIS_LOCK = FALSE
    /\ TIME_CACHE \in {None} \cup 1..MaxCache
    /\ namespace \in Namespaces
    /\ now = 0
    /\ queue_hostname = {} /\ queue_requests = {} /\ queue_selenium = {}
    /\ HostnameQueueModel = {} /\ RequestsQueueModel = {} /\ SeleniumQueueModel = {}
    /\ last = Call("init", {}, FALSE, FALSE, FALSE, {})
    /\ drawn = [s \in Stages |-> [u \in Urls |-> None]]
    /\ lock = <<>> /\ pc = <<>> /\ loc = <<>> /\ hist = <<>>
    /\ call = <<>> /\ QUEUE_REQUESTS = <<>> /\ QUEUE_SELENIUM = <<>>
    /\ work = <<>> /\ invoked = 0

\* the clock advances
Tick ==
    /\ now < MaxTime
    /\ now' = now + 1
    /\ UNCHANGED <<config, crawl_state, call, redis_state, db_state, last, drawn, proc_state>>

\* db.py:166-183
have_hostname(link) ==
    /\ IF FLAG_DB
       THEN LET r == _have_hostname_db(HostnameQueueModel, link, now)
            IN  /\ HostnameQueueModel' = r.table
                /\ last' = Call("have_hostname", {}, r.flag, r.raised,
                                HostKnown(link), {})
                /\ UNCHANGED queue_hostname
       ELSE LET r == _have_hostname_redis(queue_hostname, link)
            IN  /\ queue_hostname' = r.set
                /\ last' = Call("have_hostname", {}, r.flag, FALSE,
                                HostKnown(link), {})
                /\ UNCHANGED HostnameQueueModel
    /\ UNCHANGED <<config, crawl_state, call, now, queue_requests, queue_selenium, RequestsQueueModel,
                   SeleniumQueueModel, drawn, proc_state>>

\* db.py:230-244
drop_hostname(link) ==
    /\ IF FLAG_DB
       THEN LET r == _drop_hostname_db(HostnameQueueModel, link)
            IN  /\ HostnameQueueModel' = r.table
                /\ last' = Call("drop_hostname", {}, FALSE, r.raised,
                                HostKnown(link), {})
                /\ UNCHANGED queue_hostname
       ELSE /\ queue_hostname' = _drop_hostname_redis(queue_hostname, link)
            /\ last' = Call("drop_hostname", {}, FALSE, FALSE, HostKnown(link), {})
            /\ UNCHANGED HostnameQueueModel
    /\ UNCHANGED <<config, crawl_state, call, now, queue_requests, queue_selenium, RequestsQueueModel,
                   SeleniumQueueModel, drawn, proc_state>>

\* db.py:275-289
drop_requests(link) ==
    /\ IF FLAG_DB
       THEN LET r == _drop_requests_db(RequestsQueueModel, link)
            IN  /\ RequestsQueueModel' = r.table
                /\ last' = Call("drop_requests", {}, FALSE, r.raised,
                                Queued("requests", link), {})
                /\ UNCHANGED queue_requests
       ELSE /\ queue_requests' = _drop_requests_redis(queue_requests, link)
            /\ last' = Call("drop_requests", {}, FALSE, FALSE,
                            Queued("requests", link), {})
            /\ UNCHANGED RequestsQueueModel
    /\ drawn' = Forget("requests", {link})
    /\ UNCHANGED <<config, crawl_state, call, now, queue_hostname, queue_selenium, HostnameQueueModel,
                   SeleniumQueueModel, proc_state>>

\* db.py:320-334
drop_selenium(link) ==
    /\ IF FLAG_DB
       THEN LET r == _drop_selenium_db(SeleniumQueueModel, link)
            IN  /\ SeleniumQueueModel' = r.table
                /\ last' = Call("drop_selenium", {}, FALSE, r.raised,
                                Queued("selenium", link), {})
                /\ UNCHANGED queue_selenium
       ELSE /\ queue_selenium' = _drop_selenium_redis(queue_selenium, link)
            /\ last' = Call("drop_selenium", {}, FALSE, FALSE,
                            Queued("selenium", link), {})
            /\ UNCHANGED SeleniumQueueModel
    /\ drawn' = Forget("selenium", {link})
    /\ UNCHANGED <<config, crawl_state, call, now, queue_hostname, queue_requests, HostnameQueueModel,
                   RequestsQueueModel, proc_state>>

\* db.py:365-399
save_requests(entries, single, score, nx, xx) ==
    /\ IF FLAG_DB
       THEN /\ RequestsQueueModel' =
                  _save_requests_db(RequestsQueueModel, entries, single, score, nx, xx, now)
            /\ UNCHANGED queue_requests
       ELSE /\ queue_requests' =
                  _save_requests_redis(queue_requests, entries, single, score, nx, xx, now)
            /\ UNCHANGED RequestsQueueModel
    /\ last' = Call("save_requests", {}, FALSE, FALSE, FALSE, {})
    /\ drawn' = Forget("requests", Named(entries, single))
    /\ UNCHANGED <<config, crawl_state, call, now, queue_hostname, queue_selenium, HostnameQueueModel,
                   SeleniumQueueModel, proc_state>>

\* db.py:525-557
save_selenium(entries, single, score, nx, xx) ==
    /\ IF FLAG_DB
       THEN /\ SeleniumQueueModel' =
                  _save_selenium_db(SeleniumQueueModel, entries, single, score, nx, xx, now)
            /\ UNCHANGED queue_selenium
       ELSE /\ queue_selenium' =
                  _save_selenium_redis(queue_selenium, entries, single, score, nx, xx, now)
            /\ UNCHANGED SeleniumQueueModel
    /\ last' = Call("save_selenium", {}, FALSE, FALSE, FALSE, {})
    /\ drawn' = Forget("selenium", Named(entries, single))
    /\ UNCHANGED <<config, crawl_state, call, now, queue_hostname, queue_requests, HostnameQueueModel,
                   RequestsQueueModel, proc_state>>

\* db.py:693-728, check off (the validity filter of darc.parse is not applied)
load_requests ==
    /\ IF FLAG_DB
       THEN \E answer \in SelectDue(RequestsQueueModel, MaxScore(now)) :
              LET r == _load_requests_db(RequestsQueueModel, answer, now)
              IN  /\ RequestsQueueModel' = r.table
                  /\ last' = Call("load_requests", Range(r.link_pool), FALSE, FALSE,
                                  FALSE, Again("requests", Range(r.link_pool)))
                  /\ drawn' = Remember("requests", Range(r.link_pool))
                  /\ UNCHANGED queue_requests
       ELSE LET r == _load_requests_redis(queue_requests, now)
            IN  /\ queue_requests' = r.zset
                /\ last' = Call("load_requests", Range(r.link_pool), FALSE, FALSE,
                                FALSE, Again("requests", Range(r.link_pool)))
                /\ drawn' = Remember("requests", Range(r.link_pool))
                /\ UNCHANGED RequestsQueueModel
    /\ UNCHANGED <<config, crawl_state, call, now, queue_hostname, queue_selenium, HostnameQueueModel,
                   SeleniumQueueModel, proc_state>>

\* db.py:804-839
load_selenium ==
    /\ IF FLAG_DB
       THEN \E answer \in SelectDue(SeleniumQueueModel, MaxScore(now)) :
              LET r == _load_selenium_db(SeleniumQueueModel, answer, now)
              IN  /\ SeleniumQueueModel' = r.table
                  /\ last' = Call("load_selenium", Range(r.link_pool), FALSE, FALSE,
                                  FALSE, Again("selenium", Range(r.link_pool)))
                  /\ drawn' = Remember("selenium", Range(r.link_pool))
                  /\ UNCHANGED queue_selenium
       ELSE LET r == _load_selenium_redis(queue_selenium, now)
            IN  /\ queue_selenium' = r.zset
                /\ last' = Call("load_selenium", Range(r.link_pool), FALSE, FALSE,
                                FALSE, Again("selenium", Range(r.link_pool)))
                /\ drawn' = Remember("selenium", Range(r.link_pool))
                /\ UNCHANGED SeleniumQueueModel
    /\ UNCHANGED <<config, crawl_state, call, now, queue_hostname, queue_requests, HostnameQueueModel,
                   RequestsQueueModel, proc_state>>

HaveHostname == namespace = "hostname" /\ \E link \in Links : have_hostname(link)
DropHostname == namespace = "hostname" /\ \E link \in Links : drop_hostname(link)
DropRequests == namespace = "requests" /\ \E link \in Links : drop_requests(link)
DropSelenium == namespace = "selenium" /\ \E link \in Links : drop_selenium(link)
LoadRequests == namespace = "requests" /\ load_requests
LoadSelenium == namespace = "selenium" /\ load_selenium
SaveRequests ==
    /\ namespace = "requests"
    /\ \E score \in Scores \cup {None}, m \in Modes :
        \/ \E entries \in Batches : save_requests(entries, FALSE, score, m[1], m[2])
        \/ \E link \in Links : save_requests(link, TRUE, score, m[1], m[2])
SaveSelenium ==
    /\ namespace = "selenium"
    /\ \E score \in Scores \cup {None}, m \in Modes :
        \/ \E entries \in Batches : save_selenium(entries, FALSE, score, m[1], m[2])
        \/ \E link \in Links : save_selenium(link, TRUE, score, m[1], m[2])

Next ==
    \/ Tick
    \/ HaveHostname
    \/ DropHostname
    \/ DropRequests
    \/ DropSelenium
    \/ SaveRequests
    \/ SaveSelenium
    \/ LoadRequests
    \/ LoadSelenium

Spec == Init /\ [][Next]_vars

----------------------------------------------------------------------------
(* SpecProc: several processes on the Redis backend.  A call is a sequence *)
(* of steps, one per lock acquisition, per Redis command and per lock      *)
(* release, and the steps of the processes interleave.  The calls of a run *)
(* fall within one tick of the clock (a lock timeout is shorter than that) *)
(* and name the first NProcUrls URLs.                                      *)

\* number of processes
NProcs == 2
\* number of URLs the processes contend for
NProcUrls == 1
\* the history counts up to MaxCalls have_hostname returns per host
MaxCalls == 2

Procs == 1..NProcs
ProcLinks == {parse_link(u) : u \in 1..NProcUrls}
\* a lock key is the set of its holders: empty, or the one process whose
\* token it stores
NoToken == {}

\* the local variables of a process that is in no call.  entries holds the
\* argument (a single link as a list of one) and, in a load, link_pool;
\* fresh and failed are history: no srem of the host since this call's sadd,
\* and the lock acquisition of this load timed out
Idle ==
    [op |-> "idle", entries |-> <<>>, single |-> FALSE, i |-> 0, score |-> None,
     nx |-> FALSE, xx |-> FALSE, time |-> None, flag |-> FALSE, inner |-> FALSE,
     raised |-> FALSE, fresh |-> FALSE, failed |-> FALSE]

\* the stage queue of the namespace the run exercises
Queue == IF namespace = "requests" THEN queue_requests ELSE queue_selenium
SetQueue(zset) ==
    IF namespace = "requests"
    THEN queue_requests' = zset /\ UNCHANGED <<queue_hostname, queue_selenium>>
    ELSE queue_selenium' = zset /\ UNCHANGED <<queue_hostname, queue_requests>>

\* db.py:161-163: with REDIS_LOCK off the with statement takes no lock and
\* goes straight to its body
Enter == IF REDIS_LOCK THEN "lock" ELSE "cmd"

\* where a call goes on once a with statement is left
Continue(l) ==
    IF l.op \in {"save", "load"} /\ ~l.single /\ l.i + BULK_SIZE < Len(l.entries)
         /\ (l.op = "load" => l.inner)
    THEN [pc |-> Enter, loc |-> [l EXCEPT !.i = @ + BULK_SIZE]]
    ELSE IF l.op = "load" /\ l.inner
    THEN [pc |-> IF REDIS_LOCK THEN "unlock" ELSE "ret", loc |-> [l EXCEPT !.inner = FALSE]]
    ELSE [pc |-> "ret", loc |-> l]

\* where a call goes on once the command in a with statement has returned
AfterCommand(l) == IF REDIS_LOCK THEN [pc |-> "unlock", loc |-> l] ELSE Continue(l)

\* a variant that swallows the error and goes on into the body of the with
LockError_Proceed(l) == [pc |-> "cmd", loc |-> [l EXCEPT !.failed = TRUE]]

\* db.py:796-800 / 911-915: except redis_lock.LockError: link_pool = list()
LockError(l) ==
    [pc |-> "ret", loc |-> [l EXCEPT !.entries = <<>>, !.failed = TRUE]]

Set(p, r) ==
    /\ pc' = [pc EXCEPT ![p] = r.pc]
    /\ loc' = [loc EXCEPT ![p] = r.loc]

InitProc ==
    /\ FLAG_DB = FALSE
    /\ REDIS_LOCK \in BOOLEAN
    /\ TIME_CACHE \in {None, MaxCache}
    /\ namespace \in Namespaces
    /\ now = MaxCache
    /\ queue_hostname = {} /\ queue_requests = {} /\ queue_selenium = {}
    /\ HostnameQueueModel = {} /\ RequestsQueueModel = {} /\ SeleniumQueueModel = {}
    /\ last = Call("init", {}, FALSE, FALSE, FALSE, {})
    /\ drawn = [s \in Stages |-> [u \in Urls |-> None]]
    /\ lock = [n \in Namespaces |-> NoToken]
    /\ pc = [p \in Procs |-> "idle"]
    /\ loc = [p \in Procs |-> Idle]
    /\ hist = [h \in Hosts |-> [falses |-> 0, done |-> 0]]
    /\ call = <<>> /\ QUEUE_REQUESTS = <<>> /\ QUEUE_SELENIUM = <<>>
    /\ work = <<>> /\ invoked = 0

\* db.py:166-183, 212-224: have_hostname is called
CallHaveHostname(p, link) ==
    /\ namespace = "hostname" /\ pc[p] = "idle"
    /\ Set(p, [pc |-> Enter,
               loc |-> [Idle EXCEPT !.op = "have_hostname", !.entries = <<link>>,
                                    !.fresh = TRUE]])
    /\ UNCHANGED <<config, crawl_state, call, now, redis_state, db_state, last, drawn, lock, hist>>

\* db.py:230-244, 262-271: drop_hostname is called
CallDropHostname(p, link) ==
    /\ namespace = "hostname" /\ pc[p] = "idle"
    /\ Set(p, [pc |-> Enter,
               loc |-> [Idle EXCEPT !.op = "drop_hostname", !.entries = <<link>>]])
    /\ UNCHANGED <<config, crawl_state, call, now, redis_state, db_state, last, drawn, lock, hist>>

\* db.py:275-289, 307-316 / 320-334, 352-361: drop_requests / drop_selenium
CallDrop(p, link) ==
    /\ namespace \in Stages /\ pc[p] = "idle"
    /\ Set(p, [pc |-> Enter, loc |-> [Idle EXCEPT !.op = "drop", !.entries = <<link>>]])
    /\ UNCHANGED <<config, crawl_state, call, now, redis_state, db_state, last, drawn, lock, hist>>

\* db.py:365-399, 487-509 / 525-557, 645-677: save_requests / save_selenium is
\* called; the default score is read from the clock here, and a batch call
\* with an empty list returns at once
CallSave(p, entries, single, score, nx, xx) ==
    /\ namespace \in Stages /\ pc[p] = "idle"
    /\ Set(p, [pc |-> IF ~single /\ entries = <<>> THEN "ret" ELSE Enter,
               loc |-> [Idle EXCEPT !.op = "save",
                                    !.entries = IF single THEN <<entries>> ELSE entries,
                                    !.single = single,
                                    !.score = IF score = None THEN now ELSE score,
                                    !.nx = nx, !.xx = xx]])
    /\ UNCHANGED <<config, crawl_state, call, now, redis_state, db_state, last, drawn, lock, hist>>

\* db.py:693-712, 768-789 / 804-823, 879-904: load_requests / load_selenium is
\* called and reads the clock
CallLoad(p) ==
    /\ namespace \in Stages /\ pc[p] = "idle"
    /\ Set(p, [pc |-> Enter, loc |-> [Idle EXCEPT !.op = "load", !.time = now]])
    /\ UNCHANGED <<config, crawl_state, call, now, redis_state, db_state, last, drawn, lock, hist>>

\* a variant that takes the lock whoever holds it
Acquire_Barging(p) ==
    /\ pc[p] = "lock"
    /\ lock' = [lock EXCEPT ![namespace] = {p}]
    /\ pc' = [pc EXCEPT ![p] = "cmd"]
    /\ UNCHANGED <<config, crawl_state, call, now, redis_state, db_state, last, drawn, loc, hist>>

\* redis.lock.Lock.__enter__ (db.py:224 and the other with statements): the
\* lock key is set when no client holds it; the caller waits otherwise.  Each
\* with statement makes a new Lock, so a holder asking again waits as well
Acquire(p) ==
    /\ pc[p] = "lock"
    /\ lock[namespace] = NoToken
    /\ lock' = [lock EXCEPT ![namespace] = {p}]
    /\ pc' = [pc EXCEPT ![p] = "cmd"]
    /\ UNCHANGED <<config, crawl_state, call, now, redis_state, db_state, last, drawn, loc, hist>>

\* db.py:790, 796 / 905, 911: the load's acquisition gives up after LOCK_TIMEOUT
\* while another client holds the lock (no other with statement has a
\* blocking_timeout)
LockTimeout(p) ==
    /\ pc[p] = "lock"
    /\ loc[p].op = "load" /\ ~loc[p].inner
    /\ lock[namespace] # NoToken
    /\ Set(p, LockError(loc[p]))
    /\ UNCHANGED <<config, crawl_state, call, now, redis_state, db_state, last, drawn, lock, hist>>

\* redis.lock.Lock.__exit__: the holder deletes the lock key
Release(p) ==
    /\ pc[p] = "unlock"
    /\ lock' = [lock EXCEPT ![namespace] = NoToken]
    /\ Set(p, Continue(loc[p]))
    /\ UNCHANGED <<config, crawl_state, call, now, redis_state, db_state, last, drawn, hist>>

\* db.py:225-226: sadd, and the flag made of its reply
Sadd(p) ==
    /\ pc[p] = "cmd" /\ loc[p].op = "have_hostname"
    /\ LET r == _have_hostname_redis(queue_hostname, loc[p].entries[1])
       IN  /\ queue_hostname' = r.set
           /\ Set(p, AfterCommand([loc[p] EXCEPT !.flag = r.flag]))
    /\ UNCHANGED <<config, crawl_state, call, now, queue_requests, queue_selenium, db_state, last, drawn,
                   lock, hist>>

\* db.py:272: srem.  History: a new count starts for the host, and the calls
\* whose sadd came before this srem no longer count
Srem(p) ==
    /\ pc[p] = "cmd" /\ loc[p].op = "drop_hostname"
    /\ LET link == loc[p].entries[1]
           r == AfterCommand(loc[p])
       IN  /\ queue_hostname' = _drop_hostname_redis(queue_hostname, link)
           /\ pc' = [pc EXCEPT ![p] = r.pc]
           /\ loc' = [q \in Procs |->
                        IF q = p THEN r.loc
                        ELSE IF /\ loc[q].op = "have_hostname"
                                /\ pc[q] \in {"unlock", "ret"}
                                /\ loc[q].entries[1].host = link.host
                        THEN [loc[q] EXCEPT !.fresh = FALSE]
                        ELSE loc[q]]
           /\ hist' = [hist EXCEPT ![link.host] = [falses |-> 0, done |-> 0]]
    /\ UNCHANGED <<config, crawl_state, call, now, queue_requests, queue_selenium, db_state, last, drawn,
                   lock>>

\* db.py:317 / 362: zrem
Zrem(p) ==
    /\ pc[p] = "cmd" /\ loc[p].op = "drop"
    /\ SetQueue(IF namespace = "requests"
                THEN _drop_requests_redis(queue_requests, loc[p].entries[1])
                ELSE _drop_selenium_redis(queue_selenium, loc[p].entries[1]))
    /\ Set(p, AfterCommand(loc[p]))
    /\ UNCHANGED <<config, crawl_state, call, now, db_state, last, drawn, lock, hist>>

\* db.py:515, 522 / 683, 690: zadd, of a save call or of the save a load makes
Zadd(p) ==
    /\ pc[p] = "cmd"
    /\ IF loc[p].op = "load" THEN loc[p].inner ELSE loc[p].op = "save"
    /\ LET l == loc[p]
       IN  SetQueue(IF l.single
                    THEN ZADD(Queue, Mapping(l.entries, l.score), l.nx, l.xx)
                    ELSE ZaddGroup(Queue, l.entries, l.i, l.score, l.nx, l.xx))
    /\ Set(p, AfterCommand(loc[p]))
    /\ UNCHANGED <<config, crawl_state, call, now, db_state, last, drawn, lock, hist>>

\* db.py:791-795 / 906-910: zrangebyscore; with TIME_CACHE set the pool is
\* handed to _save_requests_redis / _save_selenium_redis inside the with
Zrangebyscore(p) ==
    /\ pc[p] = "cmd" /\ loc[p].op = "load" /\ ~loc[p].inner
    /\ LET link_pool == LoadsAll(ZRANGEBYSCORE(Queue, 0, MaxScore(loc[p].time), 0, MAX_POOL))
           l == [loc[p] EXCEPT !.entries = link_pool]
       IN  Set(p, IF TIME_CACHE # None /\ link_pool # <<>>
                  THEN [pc |-> Enter,
                        loc |-> [l EXCEPT !.inner = TRUE, !.score = NewScore(l.time)]]
                  ELSE AfterCommand(l))
    /\ UNCHANGED <<config, crawl_state, call, now, redis_state, db_state, last, drawn, lock, hist>>

\* the call returns.  History: a have_hostname return is counted for its host
Return(p) ==
    /\ pc[p] = "ret"
    /\ Set(p, [pc |-> "idle", loc |-> Idle])
    /\ hist' = IF loc[p].op = "have_hostname" /\ loc[p].fresh
               THEN [hist EXCEPT ![loc[p].entries[1].host] =
                        [falses |-> Min(MaxCalls, @.falses + IF loc[p].flag THEN 0 ELSE 1),
                         done |-> Min(MaxCalls, @.done + 1)]]
               ELSE hist
    /\ UNCHANGED <<config, crawl_state, call, now, redis_state, db_state, last, drawn, lock>>

\* the save calls the processes make: one link, or the list of all their
\* links, in replace mode with an explicit score
ProcSave(p) ==
    \E score \in Scores, single \in BOOLEAN :
        \E entries \in IF single THEN ProcLinks ELSE {ListOf(ProcLinks)} :
            CallSave(p, entries, single, score, FALSE, FALSE)

NextProc ==
    \/ \E p \in Procs, link \in ProcLinks : CallHaveHostname(p, link)
    \/ \E p \in Procs, link \in ProcLinks : CallDropHostname(p, link)
    \/ \E p \in Procs, link \in ProcLinks : CallDrop(p, link)
    \/ \E p \in Procs : ProcSave(p)
    \/ \E p \in Procs : CallLoad(p)
    \/ \E p \in Procs : Acquire(p)
    \/ \E p \in Procs : LockTimeout(p)
    \/ \E p \in Procs : Release(p)
    \/ \E p \in Procs : Sadd(p)
    \/ \E p \in Procs : Srem(p)
    \/ \E p \in Procs : Zrem(p)
    \/ \E p \in Procs : Zadd(p)
    \/ \E p \in Procs : Zrangebyscore(p)
    \/ \E p \in Procs : Return(p)

SpecProc == InitProc /\ [][NextProc]_vars

\* A process outside a critical section keeps running: it acquires a free
\* lock, gives up a load's acquisition and returns.  Inside a critical
\* section nothing is promised: the command there is made by _redis_command
\* (db.py:106-129), which retries for as long as the backend fails, and the
\* lock key carries no expiry (timeout None, db.py:133, 162).
SpecProcStall ==
    SpecProc /\ \A p \in Procs : WF_vars(Acquire(p) \/ LockTimeout(p) \/ Return(p))

----------------------------------------------------------------------------
(* Claims checked under Spec *)

Score(entries, link) == (CHOOSE e \in entries : e.url = link.url).score
Has(entries, link) == \E e \in entries : e.url = link.url
\* the highest score that is due at time t, as the claims state it
DueScore(t) == IF TIME_CACHE = None THEN t ELSE t - TIME_CACHE
\* the entries other than e that a lowest-score-first read may place before e
Ahead(entries, e) == {f \in entries : f # e /\ f.score <= e.score}

\* C2: in the relational backend with TIME_CACHE set, once a host is in the
\* host set every later have_hostname call for it returns true, whatever the
\* time that has passed since it was added.
C2_KnownHostStaysKnown ==
    [][\A link \in Links :
          (FLAG_DB /\ TIME_CACHE # None /\ HostKnown(link) /\ have_hostname(link))
              => (last'.flag /\ ~last'.exc)]_vars

\* C3, first half for one stage: after a deferring load at time t, every entry
\* it returned has score >= t + TIME_CACHE
Deferred(stage) ==
    \A l \in last'.links :
        /\ Has(Entries(stage)', l)
        /\ Score(Entries(stage)', l) >= now + TIME_CACHE
\* C3, second half: a link drawn less than TIME_CACHE ago, with no save or drop
\* of it since, is not returned
NotRedrawn(stage) ==
    \A u \in Urls :
        (drawn[stage][u] # None /\ now - drawn[stage][u] < TIME_CACHE)
            => parse_link(u) \notin last'.links

\* C3: draw deferral.  With TIME_CACHE = d non-null, the entries a load_requests
\* at time t returns have score >= t + d right after it, and a later
\* load_requests at t' with t' - t < d returns none of them unless they were
\* saved in between; the same for load_selenium.
C3_DrawDeferral ==
    [][(TIME_CACHE # None) =>
          /\ load_requests => (Deferred("requests") /\ NotRedrawn("requests"))
          /\ load_selenium => (Deferred("selenium") /\ NotRedrawn("selenium"))]_vars

\* a deferring load has come back empty in the tick in which an earlier load
\* drew a link, that link still queued and neither saved nor dropped since
C3_Witness ==
    /\ TIME_CACHE # None
    /\ last.op \in {"load_requests", "load_selenium"}
    /\ last.links = {}
    /\ \E st \in Stages, u \in Urls : drawn[st][u] = now

\* C4: queue uniqueness.  In every reachable state neither stage queue, in
\* either backend, holds two entries with the same URL.
C4_QueueUniqueness ==
    /\ \A a, b \in queue_requests :
          pickle_loads(a.member).url = pickle_loads(b.member).url => a = b
    /\ \A a, b \in queue_selenium :
          pickle_loads(a.member).url = pickle_loads(b.member).url => a = b
    /\ \A a, b \in RequestsQueueModel : a.text = b.text => a = b
    /\ \A a, b \in SeleniumQueueModel : a.text = b.text => a = b

\* a save has just gone over a queue that holds every URL, at two scores
C4_Witness ==
    /\ last.op \in {"save_requests", "save_selenium"}
    /\ \E st \in Stages :
          /\ Cardinality(Entries(st)) = NUrls
          /\ \E a, b \in Entries(st) : a.score # b.score

\* what a save of (entries, score, mode) must make of the entries pre
SaveModes(pre, post, entries, single, score, nx, xx) ==
    LET s == IF score = None THEN now ELSE score
    IN  \A l \in Named(entries, single) :
            IF ~nx /\ ~xx THEN Has(post, l) /\ Score(post, l) = s
            ELSE IF nx THEN /\ Has(post, l)
                            /\ Score(post, l) = IF Has(pre, l) THEN Score(pre, l) ELSE s
            ELSE IF Has(pre, l) THEN Has(post, l) /\ Score(post, l) = s
                 ELSE ~Has(post, l)

ZView(zset) == {[url |-> pickle_loads(e.member).url, score |-> e.score] : e \in zset}
TView(table) == {[url |-> x.text, score |-> x.timestamp] : x \in table}

\* C5: save modes.  From every reachable queue, a save in replace mode leaves
\* every named entry present with the given score (now when none is given);
\* with nx a present entry keeps its score and an absent one is inserted with
\* the given score; with xx a present entry gets the given score and an absent
\* one stays absent.  For single and batch calls, both stage queues, both
\* backends (the backend checked in a state is the one FLAG_DB selects).
C5_SaveModes ==
    \A score \in Scores \cup {None}, m \in Modes, single \in BOOLEAN :
        \A entries \in IF single THEN Links ELSE Batches :
            IF FLAG_DB
            THEN /\ SaveModes(TView(RequestsQueueModel),
                              TView(_save_requests_db(RequestsQueueModel, entries, single,
                                                      score, m[1], m[2], now)),
                              entries, single, score, m[1], m[2])
                 /\ SaveModes(TView(SeleniumQueueModel),
                              TView(_save_selenium_db(SeleniumQueueModel, entries, single,
                                                      score, m[1], m[2], now)),
                              entries, single, score, m[1], m[2])
            ELSE /\ SaveModes(ZView(queue_requests),
                              ZView(_save_requests_redis(queue_requests, entries, single,
                                                         score, m[1], m[2], now)),
                              entries, single, score, m[1], m[2])
                 /\ SaveModes(ZView(queue_selenium),
                              ZView(_save_selenium_redis(queue_selenium, entries, single,
                                                         score, m[1], m[2], now)),
                              entries, single, score, m[1], m[2])

\* a save has left a queue with an entry older than the clock and an entry
\* scored at the clock
C5_Witness ==
    /\ last.op \in {"save_requests", "save_selenium"}
    /\ now > 0
    /\ \E st \in Stages :
          \E a, b \in Entries(st) : a.score = 0 /\ b.score = now

\* C6: load_requests at time t returns at most MAX_POOL entries, each with
\* score <= t - TIME_CACHE (<= t when TIME_CACHE is None) when it was read, and
\* no due entry it left had a strictly lower score than one it returned.
C6_LowestDueDrawn ==
    [][load_requests =>
          LET pre == Entries("requests")
              pool == last'.links
          IN  /\ Cardinality(pool) <= MAX_POOL
              /\ \A l \in pool : Has(pre, l) /\ Score(pre, l) <= DueScore(now)
              /\ \A l \in pool, e \in pre :
                    (e.score <= DueScore(now) /\ parse_link(e.url) \notin pool)
                        => e.score >= Score(pre, l)]_vars

\* a load has returned MAX_POOL links and left a due entry in the queue
C6_Witness ==
    /\ last.op = "load_requests"
    /\ Cardinality(last.links) = MAX_POOL
    /\ \E e \in Entries("requests") :
          e.score <= DueScore(now) /\ parse_link(e.url) \notin last.links

\* C7 as claimed: an entry saved with the default score (now) is returned by
\* a load_requests issued right after the save at the same clock value when
\* fewer than MAX_POOL other entries score as low, for every TIME_CACHE.
C7_DefaultScoreDueAtOnce ==
    [][(last.op = "save_requests" /\ load_requests) =>
          \A e \in Entries("requests") :
              (e.score = now /\ Cardinality(Ahead(Entries("requests"), e)) < MAX_POOL)
                  => parse_link(e.url) \in last'.links]_vars

\* C7 amended: such an entry is returned at the same clock value only when
\* TIME_CACHE is None; with TIME_CACHE = d a load at the same clock value does
\* not return it, and a load returns it once the clock has reached its score
\* plus d (when fewer than MAX_POOL other entries score as low).
C7_DefaultScoreDueAfterCache ==
    [][load_requests =>
          \A e \in Entries("requests") :
              LET near == Cardinality(Ahead(Entries("requests"), e)) < MAX_POOL
                  got == parse_link(e.url) \in last'.links
              IN  /\ (TIME_CACHE = None /\ e.score = now /\ near) => got
                  /\ (TIME_CACHE # None /\ e.score = now) => ~got
                  /\ (TIME_CACHE # None /\ e.score + TIME_CACHE <= now /\ near) => got]_vars

\* under a non-null TIME_CACHE a load has returned an entry that is as old as
\* TIME_CACHE, while an entry scored at the clock stays in the queue undrawn
C7_Witness ==
    /\ TIME_CACHE # None
    /\ last.op = "load_requests"
    /\ last.links # {}
    /\ \E e \in Entries("requests") :
          e.score = now /\ parse_link(e.url) \notin last.links

\* C8 as claimed: an entry drawn at time t and neither saved nor dropped since
\* is returned by a load_requests at any time t' >= t + TIME_CACHE when fewer
\* than MAX_POOL other entries score as low.
C8_RedrawAfterCache ==
    [][(TIME_CACHE # None /\ load_requests) =>
          \A e \in Entries("requests") :
              (/\ drawn["requests"][e.url] # None
               /\ now >= drawn["requests"][e.url] + TIME_CACHE
               /\ Cardinality(Ahead(Entries("requests"), e)) < MAX_POOL)
                  => parse_link(e.url) \in last'.links]_vars

\* C8 amended: such an entry is returned by a load_requests at any time
\* t' >= t + 2 * TIME_CACHE (when fewer than MAX_POOL other entries score as
\* low), and by no load_requests at a time t' < t + 2 * TIME_CACHE.
C8_RedrawAfterTwiceCache ==
    [][(TIME_CACHE # None /\ load_requests) =>
          \A e \in Entries("requests") :
              LET t == drawn["requests"][e.url]
                  got == parse_link(e.url) \in last'.links
              IN  t # None =>
                    /\ (/\ now >= t + 2 * TIME_CACHE
                        /\ Cardinality(Ahead(Entries("requests"), e)) < MAX_POOL) => got
                    /\ now < t + 2 * TIME_CACHE => ~got]_vars

\* a load has returned a link that an earlier load had drawn, with no save or
\* drop of it in between
C8_Witness ==
    /\ TIME_CACHE # None
    /\ last.op = "load_requests"
    /\ last.again # {}

\* C9: idempotent drops.  drop_requests, drop_selenium and drop_hostname do not
\* raise, leave every queue as it is when the key is not there, and a second
\* identical drop changes nothing more; in both backends.
C9_IdempotentDrops ==
    [][\A link \in Links :
          /\ drop_requests(link) =>
                /\ ~last'.exc
                /\ ~Queued("requests", link) => UNCHANGED <<redis_state, db_state>>
                /\ _drop_requests_redis(queue_requests', link) = queue_requests'
                /\ _drop_requests_db(RequestsQueueModel', link).table = RequestsQueueModel'
                /\ ~_drop_requests_db(RequestsQueueModel', link).raised
          /\ drop_selenium(link) =>
                /\ ~last'.exc
                /\ ~Queued("selenium", link) => UNCHANGED <<redis_state, db_state>>
                /\ _drop_selenium_redis(queue_selenium', link) = queue_selenium'
                /\ _drop_selenium_db(SeleniumQueueModel', link).table = SeleniumQueueModel'
                /\ ~_drop_selenium_db(SeleniumQueueModel', link).raised
          /\ drop_hostname(link) =>
                /\ ~last'.exc
                /\ ~HostKnown(link) => UNCHANGED <<redis_state, db_state>>
                /\ _drop_hostname_redis(queue_hostname', link) = queue_hostname'
                /\ _drop_hostname_db(HostnameQueueModel', link).table = HostnameQueueModel'
                /\ ~_drop_hostname_db(HostnameQueueModel', link).raised]_vars

\* a drop of a key that was not there has returned, the queue holding others
C9_Witness ==
    /\ last.op \in {"drop_requests", "drop_selenium", "drop_hostname"}
    /\ ~last.found
    /\ ~last.exc
    /\ \/ \E st \in Stages : Entries(st) # {}
       \/ last.op = "drop_hostname"

----------------------------------------------------------------------------
(* Claims checked under SpecProc *)

\* a have_hostname call for host h has done its sadd since the last srem of h
\* and has not returned yet
Pending(h) ==
    \E p \in Procs :
        /\ loc[p].op = "have_hostname" /\ loc[p].fresh
        /\ pc[p] \in {"unlock", "ret"}
        /\ loc[p].entries[1].host = h

\* C1: in the Redis backend, with REDIS_LOCK on and off, among the
\* have_hostname(h) calls of any processes whose sadd falls between two
\* drop_hostname(h) (or before the first), in any interleaving, never more than
\* one returns false, and once those that did their sadd have all returned
\* exactly one has returned false and every other true.
C1_OneFalsePerHost ==
    \A h \in Hosts :
        /\ hist[h].falses <= 1
        /\ (hist[h].done >= 1 /\ ~Pending(h)) => hist[h].falses = 1

\* without the lock, MaxCalls calls for one host have returned since its last
\* drop, one of them false, while another call for it is under way
C1_Witness ==
    /\ ~REDIS_LOCK
    /\ \E h \in Hosts :
          /\ hist[h].done = MaxCalls /\ hist[h].falses = 1
          /\ \E p \in Procs : loc[p].op = "have_hostname" /\ loc[p].entries[1].host = h

\* C10: with REDIS_LOCK on, a load_requests / load_selenium call whose lock
\* acquisition times out while another process holds the lock goes straight
\* to its return with an empty batch and no exception, and neither the timeout
\* nor any later step of that call changes an entry or a score of a queue.
C10_LockTimeoutEmptyBatch ==
    [][\A p \in Procs :
          /\ LockTimeout(p) =>
                /\ pc'[p] = "ret"
                /\ loc'[p].entries = <<>> /\ ~loc'[p].raised
                /\ UNCHANGED redis_state
          /\ (loc[p].failed /\ pc'[p] # pc[p]) =>
                /\ Return(p)
                /\ loc[p].entries = <<>> /\ ~loc[p].raised
                /\ UNCHANGED redis_state]_vars

\* a load that timed out is about to return its empty batch, the lock held by
\* another process and the queue holding an entry that was due for it
C10_Witness ==
    \E p \in Procs :
        /\ pc[p] = "ret" /\ loc[p].op = "load" /\ loc[p].failed
        /\ loc[p].entries = <<>>
        /\ lock[namespace] \notin {NoToken, {p}}
        /\ \E e \in Queue : e.score <= DueScore(loc[p].time)

(***************************************************************************)
(* SpecFail: one call of a public operation, one action per attempt of a   *)
(* backend call.  An attempt succeeds or raises; what happens to the       *)
(* exception depends on where the call sits: inside _redis_command         *)
(* (db.py:101-128), in the with statement of a lock (db.py:224, 271, ...)  *)
(* or in a peewee call of the relational functions.                        *)
(***************************************************************************)
MaxFails == 2

Ops == {"have_hostname", "drop_hostname", "drop_requests", "drop_selenium",
        "save_requests", "save_selenium", "load_requests", "load_selenium"}

Loads == {"load_requests", "load_selenium"}

\* db.py:161-163 and the with statements on it: the Lock object is made by
\* _redis_command('lock', ...), entered and left by the with statement
\* itself; nullcontext makes no backend call
With(redis_lock, body) ==
    IF redis_lock THEN <<"lock", "acquire">> \o body \o <<"release">> ELSE body

\* the link every call of the run names
FailLink == parse_link(1)

\* the Redis functions: one command inside the with block
RedisPlan(op) == With(REDIS_LOCK, <<"command">>)

\* the relational functions: connection_context(), then the peewee calls.
\* get_or_create (db.py:203) selects and, when the row is absent, inserts
\* inside atomic(); a drop selects with get_or_none and deletes only a row it
\* found (db.py:256-259, 301-304, 346-349); a single save in replace mode is
\* one REPLACE (db.py:478-484); a load selects inside atomic() (db.py:752).
\* Leaving atomic() commits: one more backend call, after the last statement
\* of the block.
DbPlan(op) ==
    CASE op = "have_hostname" ->
            IF \E x \in HostnameQueueModel : x.hostname = FailLink.host
            THEN <<"connect", "query">>
            ELSE <<"connect", "query", "begin", "query", "commit">>
      [] op \in {"drop_hostname", "drop_requests", "drop_selenium"} ->
            IF \/ op = "drop_hostname"
                  /\ \E x \in HostnameQueueModel : x.hostname = FailLink.host
               \/ op = "drop_requests"
                  /\ \E x \in RequestsQueueModel : x.text = FailLink.url
               \/ op = "drop_selenium"
                  /\ \E x \in SeleniumQueueModel : x.text = FailLink.url
            THEN <<"connect", "query", "query">>
            ELSE <<"connect", "query">>
      [] op \in {"save_requests", "save_selenium"} -> <<"connect", "query">>
      [] OTHER -> <<"connect", "begin", "query", "commit">>

\* db.py:179-182 and its siblings: the backend FLAG_DB selects
Plan(op) == IF FLAG_DB THEN DbPlan(op) ELSE RedisPlan(op)

\* a variant in which no call goes through _redis_command
Retried_None(kind) == FALSE

\* db.py:101-128: the calls made through _redis_command
Retried(kind) == kind \in {"lock", "command"}

\* the exceptions a backend call raises: a connection error anywhere, and
\* redis.exceptions.LockError from Lock.__enter__ / Lock.__exit__
Raises(kind) ==
    IF kind \in {"acquire", "release"} THEN {"ConnectionError", "LockError"}
    ELSE IF kind \in {"lock", "command"} THEN {"ConnectionError"}
    ELSE {"OperationalError"}

\* db.py:796, 911: the only except clause around a with statement
Caught(op, exc) == op \in Loads /\ exc = "LockError"

\* reply: what the backend method answered in the attempt that succeeded;
\* value: what _redis_command returned to its caller (db.py:110, 129)
NoCall == [op |-> "none", plan |-> <<>>, i |-> 1, warned |-> 0,
           state |-> "idle", exc |-> "none", reply |-> {}, value |-> {}]

InitFail ==
    /\ FLAG_DB \in BOOLEAN
    /\ REDIS_LOCK \in BOOLEAN
    /\ TIME_CACHE = None
    /\ namespace = "requests"
    /\ now = 0
    /\ queue_hostname = {} /\ queue_requests = {} /\ queue_selenium = {}
    /\ HostnameQueueModel = {} /\ RequestsQueueModel = {} /\ SeleniumQueueModel = {}
    /\ last = Call("init", {}, FALSE, FALSE, FALSE, {})
    /\ drawn = [s \in Stages |-> [u \in Urls |-> None]]
    /\ lock = <<>> /\ pc = <<>> /\ loc = <<>> /\ hist = <<>>
    /\ call = NoCall
    /\ QUEUE_REQUESTS = <<>> /\ QUEUE_SELENIUM = <<>>
    /\ work = <<>> /\ invoked = 0

fail_frame == <<config, crawl_state, now, last, drawn, proc_state>>

\* What the call's commands and queries do once they have all succeeded: the
\* backend afterwards, the reply of the Redis command, and the exception, if
\* any, that the function raises on the answer (db.py:209 with TIME_CACHE
\* None).  The calls name FailLink; a save is single, in replace mode, with
\* the default score.
Outcomes(op) ==
    LET same == [queue_hostname |-> queue_hostname, queue_requests |-> queue_requests,
                 queue_selenium |-> queue_selenium,
                 HostnameQueueModel |-> HostnameQueueModel,
                 RequestsQueueModel |-> RequestsQueueModel,
                 SeleniumQueueModel |-> SeleniumQueueModel,
                 reply |-> TRUE, exc |-> "none"]
        member == pickle_dumps(FailLink)
        count(zset) == IF \E e \in zset : e.member = member THEN 1 ELSE 0
    IN  IF ~FLAG_DB
        THEN CASE op = "have_hostname" ->
                    {[same EXCEPT
                        !.queue_hostname = _have_hostname_redis(queue_hostname, FailLink).set,
                        !.reply = SADD(queue_hostname, FailLink.host).code]}
               [] op = "drop_hostname" ->
                    {[same EXCEPT
                        !.queue_hostname = _drop_hostname_redis(queue_hostname, FailLink),
                        !.reply = IF FailLink.host \in queue_hostname THEN 1 ELSE 0]}
               [] op = "drop_requests" ->
                    {[same EXCEPT
                        !.queue_requests = _drop_requests_redis(queue_requests, FailLink),
                        !.reply = count(queue_requests)]}
               [] op = "drop_selenium" ->
                    {[same EXCEPT
                        !.queue_selenium = _drop_selenium_redis(queue_selenium, FailLink),
                        !.reply = count(queue_selenium)]}
               [] op = "save_requests" ->
                    {[same EXCEPT
                        !.queue_requests = _save_requests_redis(queue_requests, FailLink,
                                               TRUE, None, FALSE, FALSE, now),
                        !.reply = 1 - count(queue_requests)]}
               [] op = "save_selenium" ->
                    {[same EXCEPT
                        !.queue_selenium = _save_selenium_redis(queue_selenium, FailLink,
                                               TRUE, None, FALSE, FALSE, now),
                        !.reply = 1 - count(queue_selenium)]}
               [] op = "load_requests" ->
                    {[same EXCEPT
                        !.queue_requests = _load_requests_redis(queue_requests, now).zset,
                        !.reply = ZRANGEBYSCORE(queue_requests, 0, MaxScore(now),
                                                0, MAX_POOL)]}
               [] OTHER ->
                    {[same EXCEPT
                        !.queue_selenium = _load_selenium_redis(queue_selenium, now).zset,
                        !.reply = ZRANGEBYSCORE(queue_selenium, 0, MaxScore(now),
                                                0, MAX_POOL)]}
        ELSE CASE op = "have_hostname" ->
                    LET r == _have_hostname_db(HostnameQueueModel, FailLink, now)
                    IN  {[same EXCEPT !.HostnameQueueModel = r.table,
                                      !.exc = IF r.raised THEN "TypeError" ELSE "none"]}
               [] op = "drop_hostname" ->
                    {[same EXCEPT !.HostnameQueueModel =
                        _drop_hostname_db(HostnameQueueModel, FailLink).table]}
               [] op = "drop_requests" ->
                    {[same EXCEPT !.RequestsQueueModel =
                        _drop_requests_db(RequestsQueueModel, FailLink).table]}
               [] op = "drop_selenium" ->
                    {[same EXCEPT !.SeleniumQueueModel =
                        _drop_selenium_db(SeleniumQueueModel, FailLink).table]}
               [] op = "save_requests" ->
                    {[same EXCEPT !.RequestsQueueModel =
                        _save_requests_db(RequestsQueueModel, FailLink, TRUE, None,
                                          FALSE, FALSE, now)]}
               [] op = "save_selenium" ->
                    {[same EXCEPT !.SeleniumQueueModel =
                        _save_selenium_db(SeleniumQueueModel, FailLink, TRUE, None,
                                          FALSE, FALSE, now)]}
               [] op = "load_requests" ->
                    {[same EXCEPT !.RequestsQueueModel =
                        _load_requests_db(RequestsQueueModel, answer, now).table] :
                        answer \in SelectDue(RequestsQueueModel, MaxScore(now))}
               [] OTHER ->
                    {[same EXCEPT !.SeleniumQueueModel =
                        _load_selenium_db(SeleniumQueueModel, answer, now).table] :
                        answer \in SelectDue(SeleniumQueueModel, MaxScore(now))}

\* a public function is called
CallOp(op) ==
    /\ call.state \in {"idle", "returned"}
    /\ call' = [NoCall EXCEPT !.op = op, !.plan = Plan(op), !.state = "running"]
    /\ UNCHANGED <<fail_frame, redis_state, db_state>>

\* the backend call at hand succeeds; after the last one the function returns.
\* What the function wrote takes effect with its last command or query, or,
\* inside atomic(), with the commit: a failing commit leaves the tables as
\* they were.
Succeed ==
    /\ call.state = "running"
    /\ LET kind == call.plan[call.i]
           final == \A j \in (call.i + 1)..Len(call.plan) :
                       call.plan[j] \notin {"command", "query", "commit"}
       IN  \E o \in IF kind \in {"command", "query", "commit"} /\ final
                    THEN Outcomes(call.op)
                    ELSE {[queue_hostname |-> queue_hostname,
                           queue_requests |-> queue_requests,
                           queue_selenium |-> queue_selenium,
                           HostnameQueueModel |-> HostnameQueueModel,
                           RequestsQueueModel |-> RequestsQueueModel,
                           SeleniumQueueModel |-> SeleniumQueueModel,
                           reply |-> kind, exc |-> "none"]} :
              /\ call' = [call EXCEPT
                            !.i = @ + 1,
                            !.state = IF o.exc # "none" THEN "raised"
                                      ELSE IF call.i = Len(call.plan) THEN "returned"
                                      ELSE "running",
                            !.exc = o.exc,
                            !.reply = {o.reply},
                            !.value = IF Retried(kind) THEN {o.reply} ELSE @]
              /\ queue_hostname' = o.queue_hostname
              /\ queue_requests' = o.queue_requests
              /\ queue_selenium' = o.queue_selenium
              /\ HostnameQueueModel' = o.HostnameQueueModel
              /\ RequestsQueueModel' = o.RequestsQueueModel
              /\ SeleniumQueueModel' = o.SeleniumQueueModel
    /\ UNCHANGED fail_frame

\* db.py:111-127: the method raised inside _redis_command: warn, sleep, continue
Retry ==
    /\ call.state = "running"
    /\ Retried(call.plan[call.i])
    /\ call' = [call EXCEPT !.warned = Min(@ + 1, MaxFails)]
    /\ UNCHANGED <<fail_frame, redis_state, db_state>>

\* a backend call outside _redis_command raised: the exception leaves the
\* function unless an except clause names it (db.py:796: link_pool = list())
Raise ==
    /\ call.state = "running"
    /\ ~Retried(call.plan[call.i])
    /\ \E exc \in Raises(call.plan[call.i]) :
          call' = [call EXCEPT !.exc = exc,
                               !.state = IF Caught(call.op, exc)
                                         THEN "returned" ELSE "raised"]
    /\ UNCHANGED <<fail_frame, redis_state, db_state>>

NextFail ==
    \/ \E op \in Ops : CallOp(op)
    \/ Succeed
    \/ Retry
    \/ Raise

SpecFail == InitFail /\ [][NextFail]_vars

\* the backend does not fail forever: the attempt at hand eventually succeeds
SpecFailFair == SpecFail /\ WF_vars(Succeed)

\* C11: backend errors never surface to the worker: no public operation, in
\* either backend and with REDIS_LOCK on or off, raises to its caller when a
\* backend call (a command, a lock acquisition or release, a relational
\* query) fails.  (The TypeError of db.py:209 is raised on an answer the
\* backend gave, not by a failing backend call, and is left aside here.)
C11_BackendErrorsNeverSurface == call.state = "raised" => call.exc = "TypeError"

(***************************************************************************)
(* SpecCrawl: the workers of src/darc/crawl.py.  One action is one         *)
(* invocation of crawler or loader.  What the artifact store, the network  *)
(* and the site hooks answer is the invocation's environment, chosen       *)
(* freely; what the worker does with it is recorded, call by call, in the  *)
(* trace of the invocation, and its puts are appended to the two queues.   *)
(***************************************************************************)
MaxInvoked == 1

\* the two shapes of a queue entry: a URL string, a (timestamp, url) tuple
Str(u) == <<"str", u>>
Pair(t, u) == <<"tuple", t, u>>
IsStr(e) == e[1] = "str"
IsPair(e) == e[1] = "tuple"

\* a variant in which the artifact write is left out
Ev_NoWrite(name, arg) ==
    IF name = "save_html" THEN <<>> ELSE <<[ev |-> name, arg |-> arg]>>

\* one recorded call of an invocation and what it was given or answered
Ev(name, arg) == <<[ev |-> name, arg |-> arg]>>

\* extract_links(link.url, html): the links of a page, none to NUrls of them
Hrefs == {[i \in 1..n |-> i] : n \in 0..NUrls}

\* every extracted link put into the stage-2 queue
PutAll_Selenium(name, hrefs) ==
    [i \in 1..Len(hrefs) |-> [ev |-> "put2", arg |-> Str(hrefs[i])]]

\* crawl.py:111, 129, 190, 222, 257: [QUEUE.put(href) for href in ...]
PutAll(name, hrefs) == [i \in 1..Len(hrefs) |-> [ev |-> name, arg |-> Str(hrefs[i])]]

\* what the robots.txt request and the sitemap request (of at most one
\* sitemap, listing one URL) answer inside fetch_sitemap
Boots ==
    {[robots |-> r, sitemap |-> "none"] : r \in {"transport", "raise"}}
    \cup {[robots |-> r, sitemap |-> m] :
             r \in {"cached", "ok", "non2xx"},
             m \in {"none", "cached", "ok", "non2xx", "transport", "raise"}}

\* crawl.py:57-111
fetch_sitemap(b) ==
    IF b.robots = "transport" THEN [trace |-> <<>>, raised |-> FALSE]
    ELSE IF b.robots = "raise" THEN [trace |-> <<>>, raised |-> TRUE]
    ELSE LET robots == IF b.robots = "ok" THEN Ev("save_robots", "done") ELSE <<>>
         IN  CASE b.sitemap \in {"none", "non2xx", "transport"} ->
                      [trace |-> robots, raised |-> FALSE]
               [] b.sitemap = "raise" -> [trace |-> robots, raised |-> TRUE]
               [] b.sitemap = "cached" ->
                      [trace |-> robots \o PutAll("put1", <<NUrls>>), raised |-> FALSE]
               [] OTHER ->
                      [trace |-> robots \o Ev("save_sitemap", "done")
                                        \o PutAll("put1", <<NUrls>>),
                       raised |-> FALSE]

\* a bootstrap whose exception is not caught
Bootstrap_Uncaught(b) ==
    LET r == fetch_sitemap(b)
    IN  [trace |-> Ev("fetch_sitemap", "called") \o r.trace
                   \o Ev("fetch_sitemap", IF r.raised THEN "raised" ELSE "returned"),
         raised |-> r.raised]

\* crawl.py:132-136, 147-151: try: fetch_sitemap(link) except Exception: print.
\* Whatever fetch_sitemap raised ends here: the statement itself raises nothing
Bootstrap(b) ==
    LET r == fetch_sitemap(b)
    IN  [trace |-> Ev("fetch_sitemap", "called") \o r.trace
                   \o Ev("fetch_sitemap", IF r.raised THEN "raised" ELSE "returned"),
         raised |-> FALSE]

\* crawl.py:202-205: except Exception: print; QUEUE_REQUESTS.put(link.url)
CrawlerExcept(trace, u) ==
    [trace |-> trace \o Ev("except", "Exception") \o Ev("put1", Str(u)),
     raised |-> FALSE]

\* a content-type check that lets everything through
NotHtml_Never(env) == FALSE

\* crawl.py:171-172: 'html' not in ct_type
NotHtml(env) == ~env.html

\* crawl.py:114-205.  url is the entry handed in; env is what has_raw,
\* has_folder, fetch_sitemap, the hook and the response answer, and the
\* call, if any, that raises an exception nobody expected: save_headers,
\* save_html, extract_links, the exit of with request_session(link) (line
\* 155, left at 162, 165 or after the hook) or the print of line 201.  An
\* exception raised by a statement of the try block lands in the handler of
\* line 202, whatever the block has put before
crawler(url, env) ==
    IF ~IsStr(url) THEN [trace |-> Ev("raise", "parse_link"), raised |-> TRUE]
    ELSE
    LET u == url[2]
        timestamp == now
        boot == IF env.new_host \/ env.cached THEN Bootstrap(env.boot)
                ELSE [trace |-> <<>>, raised |-> FALSE]
        cache == Ev("has_raw", TRUE)
        hook == boot.trace \o Ev("crawler_hook", env.hook)
        headers == hook \o Ev("save_headers", "done") \o Ev("content_type", env.html)
        content == headers \o Ev("content", env.body)
        raw == content \o Ev("save_html", "raw")
        links == raw \o Ev("extract_links", env.hrefs) \o PutAll("put1", env.hrefs)
                     \o Ev("ok", env.ok)
    IN  IF env.cached
        THEN CASE env.fault = "extract_links" ->
                      CrawlerExcept(cache \o Ev("raise", "extract_links"), u)
               [] boot.raised ->
                      CrawlerExcept(cache \o Ev("extract_links", env.hrefs)
                                    \o PutAll("put2", env.hrefs) \o boot.trace, u)
               [] OTHER ->
                      [trace |-> cache \o Ev("extract_links", env.hrefs)
                                 \o PutAll("put2", env.hrefs) \o boot.trace,
                       raised |-> FALSE]
        ELSE CASE boot.raised -> CrawlerExcept(boot.trace, u)
               [] env.hook = "InvalidSchema" ->
                      IF env.fault = "session"
                      THEN CrawlerExcept(hook \o Ev("raise", "session"), u)
                      ELSE [trace |-> hook, raised |-> FALSE]
               [] env.hook = "RequestException" ->
                      IF env.fault = "session"
                      THEN CrawlerExcept(hook \o Ev("put1", Str(u))
                                              \o Ev("raise", "session"), u)
                      ELSE [trace |-> hook \o Ev("put1", Str(u)), raised |-> FALSE]
               [] env.hook \in {"LinkNoReturn", "Exception"} -> CrawlerExcept(hook, u)
               [] env.fault = "session" ->
                      CrawlerExcept(hook \o Ev("raise", "session"), u)
               [] env.fault = "save_headers" ->
                      CrawlerExcept(hook \o Ev("raise", "save_headers"), u)
               [] NotHtml(env) -> [trace |-> headers, raised |-> FALSE]
               [] ~env.body ->
                      [trace |-> content \o Ev("put1", Pair(timestamp, u)),
                       raised |-> FALSE]
               [] env.fault = "save_html" ->
                      CrawlerExcept(content \o Ev("raise", "save_html"), u)
               [] env.fault = "extract_links" ->
                      CrawlerExcept(raw \o Ev("raise", "extract_links"), u)
               [] ~env.ok -> [trace |-> links \o Ev("put1", Str(u)), raised |-> FALSE]
               [] env.fault = "print" ->
                      CrawlerExcept(links \o Ev("put2", Pair(timestamp, u))
                                          \o Ev("raise", "print"), u)
               [] OTHER ->
                      [trace |-> links \o Ev("put2", Pair(timestamp, u)),
                       raised |-> FALSE]

\* crawl.py:260-263: except Exception: print; QUEUE_SELENIUM.put(link.url)
LoaderExcept(trace, u) ==
    [trace |-> trace \o Ev("except", "Exception") \o Ev("put2", Str(u)),
     raised |-> FALSE]

\* crawl.py:208-263.  entry is the entry handed in; env is what has_html,
\* the hook and the driver answer, and the call, if any, that raises an
\* exception nobody expected: save_html, extract_links, the exit of with
\* request_driver(link) (line 229, left at 239, 244, 252 or after the page
\* source was read) or the print of line 259
loader(entry, env) ==
    IF ~IsPair(entry) THEN [trace |-> Ev("raise", "unpack"), raised |-> TRUE]
    ELSE
    LET timestamp == entry[2]
        u == entry[3]
        cache == Ev("has_html", TRUE)
        hook == Ev("loader_hook", env.hook)
        page == hook \o Ev("page_source", env.body)
        html == page \o Ev("save_html", "rendered")
    IN  IF env.cached
        THEN IF env.fault = "extract_links"
             THEN LoaderExcept(cache \o Ev("raise", "extract_links"), u)
             ELSE [trace |-> cache \o Ev("extract_links", env.hrefs)
                             \o PutAll("put1", env.hrefs),
                   raised |-> FALSE]
        ELSE CASE env.hook \in {"HTTPError", "WebDriverException"} ->
                      IF env.fault = "driver"
                      THEN LoaderExcept(hook \o Ev("put2", Pair(timestamp, u))
                                             \o Ev("raise", "driver"), u)
                      ELSE [trace |-> hook \o Ev("put2", Pair(timestamp, u)),
                            raised |-> FALSE]
               [] env.hook \in {"LinkNoReturn", "Exception"} -> LoaderExcept(hook, u)
               [] ~env.body ->
                      IF env.fault = "driver"
                      THEN LoaderExcept(page \o Ev("put2", Pair(timestamp, u))
                                             \o Ev("raise", "driver"), u)
                      ELSE [trace |-> page \o Ev("put2", Pair(timestamp, u)),
                            raised |-> FALSE]
               [] env.fault = "driver" ->
                      LoaderExcept(page \o Ev("raise", "driver"), u)
               [] env.fault = "save_html" ->
                      LoaderExcept(page \o Ev("raise", "save_html"), u)
               [] env.fault = "extract_links" ->
                      LoaderExcept(html \o Ev("raise", "extract_links"), u)
               [] env.fault = "print" ->
                      LoaderExcept(html \o Ev("extract_links", env.hrefs)
                                        \o PutAll("put1", env.hrefs)
                                        \o Ev("raise", "print"), u)
               [] OTHER ->
                      [trace |-> html \o Ev("extract_links", env.hrefs)
                                 \o PutAll("put1", env.hrefs),
                       raised |-> FALSE]

\* the environment of an invocation in which nothing fails
Env == [cached |-> FALSE, hrefs |-> <<>>, new_host |-> FALSE,
        boot |-> [robots |-> "cached", sitemap |-> "none"],
        hook |-> "response", html |-> TRUE, body |-> TRUE, ok |-> TRUE,
        fault |-> "none"]

\* what the crawler hook and the response can be (crawl.py:153-199)
Responses ==
    {[Env EXCEPT !.hook = h] :
        h \in {"InvalidSchema", "RequestException", "LinkNoReturn", "Exception"}}
    \cup {[Env EXCEPT !.fault = f] : f \in {"save_headers", "save_html", "extract_links"}}
    \cup {[Env EXCEPT !.html = FALSE], [Env EXCEPT !.body = FALSE]}
    \cup {[Env EXCEPT !.hrefs = h, !.ok = k] : h \in Hrefs, k \in BOOLEAN}
    \cup {[Env EXCEPT !.hook = h, !.fault = "session"] :
             h \in {"InvalidSchema", "RequestException", "response"}}
    \cup {[Env EXCEPT !.hrefs = h, !.fault = "print"] : h \in Hrefs}

\* the environments of crawler: a known host, a new host (crawl.py:141-151)
\* and a cache hit (crawl.py:122-136)
CrawlerEnvs ==
    Responses
    \cup {[e EXCEPT !.new_host = TRUE, !.boot = b] : e \in Responses, b \in Boots}
    \cup {[Env EXCEPT !.cached = TRUE, !.hrefs = h, !.boot = b, !.fault = f] :
             h \in Hrefs, b \in Boots, f \in {"none", "extract_links"}}

\* the environments of loader (crawl.py:214-257)
LoaderEnvs ==
    {[Env EXCEPT !.hook = h] :
        h \in {"HTTPError", "WebDriverException", "LinkNoReturn", "Exception"}}
    \cup {[Env EXCEPT !.hook = "driver", !.fault = f] : f \in {"save_html", "extract_links"}}
    \cup {[Env EXCEPT !.hook = "driver", !.body = FALSE]}
    \cup {[Env EXCEPT !.hook = "driver", !.hrefs = h] : h \in Hrefs}
    \cup {[Env EXCEPT !.hook = h, !.fault = "driver"] :
             h \in {"HTTPError", "WebDriverException", "driver"}}
    \cup {[Env EXCEPT !.hook = "driver", !.body = FALSE, !.fault = "driver"]}
    \cup {[Env EXCEPT !.hook = "driver", !.hrefs = h, !.fault = "print"] : h \in Hrefs}
    \cup {[Env EXCEPT !.cached = TRUE, !.hrefs = h, !.fault = f] :
             h \in Hrefs, f \in {"none", "extract_links"}}

\* the entries an invocation put into a queue, in order
Put(trace, name) ==
    LET s == SelectSeq(trace, LAMBDA e : e.ev = name)
    IN  [i \in 1..Len(s) |-> s[i].arg]

NoWork == [worker |-> "none", entry |-> <<>>, timestamp |-> 0, trace |-> <<>>,
           raised |-> FALSE]

InitCrawl ==
    /\ FLAG_DB = FALSE
    /\ REDIS_LOCK = FALSE
    /\ TIME_CACHE = None
    /\ namespace = "requests"
    /\ now = MaxCache
    /\ queue_hostname = {} /\ queue_requests = {} /\ queue_selenium = {}
    /\ HostnameQueueModel = {} /\ RequestsQueueModel = {} /\ SeleniumQueueModel = {}
    /\ last = Call("init", {}, FALSE, FALSE, FALSE, {})
    /\ drawn = [s \in Stages |-> [u \in Urls |-> None]]
    /\ lock = <<>> /\ pc = <<>> /\ loc = <<>> /\ hist = <<>>
    /\ call = <<>>
    /\ QUEUE_REQUESTS = <<>> /\ QUEUE_SELENIUM = <<>>
    /\ work = NoWork /\ invoked = 0

crawl_frame == <<config, call, now, redis_state, db_state, last, drawn, proc_state>>

\* a worker ran: its record, and its puts at the tail of the queues
Work(worker, entry, r, requests, selenium) ==
    /\ work' = [worker |-> worker, entry |-> entry, timestamp |-> now,
                trace |-> r.trace, raised |-> r.raised]
    /\ QUEUE_REQUESTS' = requests \o Put(r.trace, "put1")
    /\ QUEUE_SELENIUM' = selenium \o Put(r.trace, "put2")
    /\ invoked' = invoked + 1
    /\ UNCHANGED crawl_frame

\* crawler is handed a seed URL, or the entry at the head of the stage-1 queue
Crawler ==
    /\ invoked < MaxInvoked
    /\ \E take \in BOOLEAN, env \in CrawlerEnvs :
          /\ take => QUEUE_REQUESTS # <<>>
          /\ \E url \in IF take THEN {Head(QUEUE_REQUESTS)} ELSE {Str(u) : u \in Urls} :
                Work("crawler", url, crawler(url, env),
                     IF take THEN Tail(QUEUE_REQUESTS) ELSE QUEUE_REQUESTS,
                     QUEUE_SELENIUM)

\* loader is handed a seed entry, or the entry at the head of the stage-2 queue
Loader ==
    /\ invoked < MaxInvoked
    /\ \E take \in BOOLEAN, env \in LoaderEnvs :
          /\ take => QUEUE_SELENIUM # <<>>
          /\ \E entry \in IF take THEN {Head(QUEUE_SELENIUM)}
                          ELSE {Pair(t, u) : t \in 0..now, u \in Urls} :
                Work("loader", entry, loader(entry, env), QUEUE_REQUESTS,
                     IF take THEN Tail(QUEUE_SELENIUM) ELSE QUEUE_SELENIUM)

NextCrawl ==
    \/ Crawler
    \/ Loader

SpecCrawl == InitCrawl /\ [][NextCrawl]_vars

(***************************************************************************)
(* Claims on the workers, checked under SpecCrawl.                         *)
(***************************************************************************)
\* how many calls of that name the invocation just made recorded
Times(name) == Len(SelectSeq(work.trace, LAMBDA e : e.ev = name))

\* the invocation just made recorded that call with that argument or answer
Did(name, arg) ==
    \E i \in DOMAIN work.trace : work.trace[i].ev = name /\ work.trace[i].arg = arg

\* the invocation just made was crawler(u) / loader((ts, u))
Crawled == work.worker = "crawler" /\ IsStr(work.entry)
Loaded == work.worker = "loader" /\ IsPair(work.entry)
WorkUrl == IF IsStr(work.entry) THEN work.entry[2] ELSE work.entry[3]

\* where the hook was called, and a put of the worker's own URL after it
HookAt(i) == work.trace[i].ev \in {"crawler_hook", "loader_hook"}
PutAfterHook(name, entry) ==
    \E i, j \in DOMAIN work.trace :
        /\ HookAt(i) /\ i < j
        /\ work.trace[j].ev = name /\ work.trace[j].arg = entry

\* u went back into a queue in the shape that queue's worker takes
RequeuedInShape ==
    \/ Did("put1", Str(WorkUrl))
    \/ \E t \in 0..MaxTime : Did("put2", Pair(t, WorkUrl))

\* u went into a queue in the other shape
RequeuedOutOfShape ==
    \/ Did("put2", Str(WorkUrl))
    \/ \E t \in 0..MaxTime : Did("put1", Pair(t, WorkUrl))

\* an artifact of u was written, or was found in the store
Persisted ==
    \/ Times("save_headers") > 0 \/ Times("save_html") > 0
    \/ Times("has_raw") > 0 \/ Times("has_html") > 0

\* a rule applied and u went into no queue
DroppedByRule ==
    /\ \/ Did("crawler_hook", "InvalidSchema")
       \/ Did("crawler_hook", "LinkNoReturn") \/ Did("loader_hook", "LinkNoReturn")
       \/ Did("content_type", FALSE)
    /\ ~RequeuedInShape /\ ~RequeuedOutOfShape

\* C12: no silent loss: when crawler(u) or loader((ts, u)) returns, an
\* artifact for u was persisted, or u was put back into a stage queue in a
\* shape its consuming worker can process, or u was dropped by an explicit
\* rule (permanent transport error, non-HTML content, LinkNoReturn).
C12_NoSilentLoss ==
    (Crawled \/ Loaded) /\ ~work.raised
        => Persisted \/ RequeuedInShape \/ DroppedByRule

\* the fetch failed transiently / succeeded
Transient ==
    \/ Did("crawler_hook", "RequestException") \/ Did("crawler_hook", "Exception")
    \/ Times("raise") > 0
    \/ Did("content", FALSE) \/ Did("ok", FALSE)
Succeeded == Did("ok", TRUE)

\* C13: progress under failure: after a crawler(u) whose fetch failed
\* transiently (transport exception other than invalid schema, empty body,
\* non-2xx, unexpected exception) the URL u itself is in the stage-1 queue and
\* no stage-2 entry for u was added; after one whose fetch succeeded the pair
\* (timestamp, u) is in the stage-2 queue.
C13_ProgressUnderFailure ==
    Crawled /\ Times("has_raw") = 0 =>
        /\ Transient =>
              /\ Str(WorkUrl) \in Range(QUEUE_REQUESTS)
              /\ ~Did("put2", Str(WorkUrl))
              /\ \A t \in 0..MaxTime : ~Did("put2", Pair(t, WorkUrl))
        /\ Succeeded => Pair(work.timestamp, WorkUrl) \in Range(QUEUE_SELENIUM)

\* C14 as stated: a crawler(u) whose response Content-Type does not contain
\* 'html' performs exactly one header write, no raw-body write, no stage-1
\* enqueue and no stage-2 enqueue.
C14_ContentTypeGate ==
    Crawled /\ Did("content_type", FALSE) =>
        /\ Times("save_headers") = 1 /\ Times("save_html") = 0
        /\ Times("put1") = 0 /\ Times("put2") = 0

\* the i-th recorded call was made inside fetch_sitemap
InBootstrap(i) ==
    \E j, k \in DOMAIN work.trace :
        /\ j < i /\ i < k
        /\ work.trace[j].ev = "fetch_sitemap" /\ work.trace[j].arg = "called"
        /\ work.trace[k].ev = "fetch_sitemap" /\ work.trace[k].arg # "called"

\* C14, amended: a crawler(u) that reaches the content-type check with a
\* response whose Content-Type does not contain 'html' performs exactly one
\* header write, no raw-body write and no stage-2 enqueue, and its only
\* stage-1 enqueues are the sitemap URLs that fetch_sitemap put while
\* bootstrapping a new host.
C14_ContentTypeGateAfterBootstrap ==
    Crawled /\ Did("content_type", FALSE) =>
        /\ Times("save_headers") = 1 /\ Times("save_html") = 0
        /\ Times("put2") = 0
        /\ \A i \in DOMAIN work.trace : work.trace[i].ev = "put1" => InBootstrap(i)

\* a new host's non-HTML response, after a bootstrap that enqueued a sitemap URL
C14_Witness == Crawled /\ Did("content_type", FALSE) /\ Times("put1") = 1

\* C15: when the crawler hook raises LinkNoReturn during crawler(u), the core
\* writes no headers and no raw body, enqueues nothing into stage-2 and does
\* not requeue u into stage-1.
C15_CrawlerLinkNoReturn ==
    Crawled /\ Did("crawler_hook", "LinkNoReturn") =>
        /\ Times("save_headers") = 0 /\ Times("save_html") = 0
        /\ Times("put2") = 0
        /\ ~PutAfterHook("put1", Str(WorkUrl))

\* C16: when the loader hook raises LinkNoReturn during loader((ts, u)), the
\* worker drops the entry: no rendered-HTML write, no stage-1 enqueue and no
\* requeue into stage-2.
C16_LoaderLinkNoReturn ==
    Loaded /\ Did("loader_hook", "LinkNoReturn") =>
        /\ Times("save_html") = 0 /\ Times("put1") = 0 /\ Times("put2") = 0

\* C17 as stated: every crawler(u) invocation, on every path, performs
\* exactly one header write, at most one raw-body write and at most one
\* stage-2 enqueue.
C17_SideEffectBounds ==
    Crawled =>
        /\ Times("save_headers") = 1
        /\ Times("save_html") <= 1
        /\ Times("put2") <= 1

\* the number of links extract_links returned to the invocation
Extracted ==
    IF \E i \in DOMAIN work.trace : work.trace[i].ev = "extract_links"
    THEN Len(work.trace[CHOOSE i \in DOMAIN work.trace :
                           work.trace[i].ev = "extract_links"].arg)
    ELSE 0

\* C17, amended: every crawler(u) invocation performs at most one header
\* write, and exactly one if and only if the hook returned a response and
\* neither the exit of the session's with block nor save_headers raised; at
\* most one raw-body write; on a cache hit no
\* header and no raw-body write and one stage-2 enqueue per extracted link,
\* on every other path at most one stage-2 enqueue.
C17_SideEffectBoundsByPath ==
    Crawled =>
        /\ Times("save_headers") <= 1
        /\ Times("save_headers") = 1 <=>
              /\ Did("crawler_hook", "response")
              /\ ~Did("raise", "session") /\ ~Did("raise", "save_headers")
        /\ Times("save_html") <= 1
        /\ IF Times("has_raw") > 0
           THEN /\ Times("save_headers") = 0 /\ Times("save_html") = 0
                /\ Times("put2") = Extracted
           ELSE Times("put2") <= 1

\* a cache hit whose page has two links
C17_Witness == Crawled /\ Times("has_raw") = 1 /\ Times("put2") = 2

\* C18: every entry that crawler or loader put into the stage-1 queue is a
\* URL string and every entry they put into the stage-2 queue is a
\* (timestamp, url) pair.
C18_QueueEntryShapes ==
    /\ \A i \in DOMAIN QUEUE_REQUESTS : IsStr(QUEUE_REQUESTS[i])
    /\ \A i \in DOMAIN QUEUE_SELENIUM : IsPair(QUEUE_SELENIUM[i])

\* the invocation bootstrapped a new host
NewHost == Crawled /\ Times("has_raw") = 0 /\ Did("fetch_sitemap", "called")

MaxHost == 5

HostNames ==
    {h \in UNION {[1..n -> {"a", ".", "onion"}] : n \in 1..MaxHost} :
        /\ h[1] # "." /\ h[Len(h)] # "."
        /\ \A i \in 1..(Len(h) - 1) : ~(h[i] = "." /\ h[i + 1] = ".")}

\* crawl.py:35-38
LINK_MAP ==
    << [regex |-> ".*?\\.onion", session |-> "tor_session", driver |-> "tor_driver"],
       [regex |-> ".*", session |-> "norm_session", driver |-> "norm_driver"] >>

\* re.match(regex, link.host) for the two patterns of LINK_MAP: the pattern
\* is tried at the start of the host and need not reach its end, so
\* '.*?\.onion' matches when '.onion' occurs anywhere in the host
re_match(regex, host) ==
    IF regex = ".*" THEN TRUE
    ELSE \E i \in 1..(Len(host) - 1) : host[i] = "." /\ host[i + 1] = "onion"

\* crawl.py:43-46, 51-54: the first entry of LINK_MAP whose pattern matches
FirstMatch(host) ==
    LET hits == {i \in DOMAIN LINK_MAP : re_match(LINK_MAP[i].regex, host)}
    IN  IF hits = {} THEN 0 ELSE CHOOSE i \in hits : \A j \in hits : i <= j

\* crawl.py:41-46
request_session(host) ==
    IF FirstMatch(host) = 0 THEN "UnsupportedLink" ELSE LINK_MAP[FirstMatch(host)].session

\* crawl.py:49-54
request_driver(host) ==
    IF FirstMatch(host) = 0 THEN "UnsupportedLink" ELSE LINK_MAP[FirstMatch(host)].driver

InitLink ==
    /\ FLAG_DB = FALSE
    /\ REDIS_LOCK = FALSE
    /\ TIME_CACHE = None
    /\ namespace = "requests"
    /\ now = 0
    /\ queue_hostname = {} /\ queue_requests = {} /\ queue_selenium = {}
    /\ HostnameQueueModel = {} /\ RequestsQueueModel = {} /\ SeleniumQueueModel = {}
    /\ last = Call("init", {}, FALSE, FALSE, FALSE, {})
    /\ drawn = [s \in Stages |-> [u \in Urls |-> None]]
    /\ lock = <<>> /\ pc = <<>> /\ loc = <<>> /\ hist = <<>>
    /\ call = <<>>
    /\ QUEUE_REQUESTS = <<>> /\ QUEUE_SELENIUM = <<>>
    /\ \E h \in HostNames : work = [worker |-> "none", host |-> h, handle |-> "none"]
    /\ invoked = 0

link_frame == <<config, call, now, redis_state, db_state, last, drawn, proc_state,
                QUEUE_REQUESTS, QUEUE_SELENIUM, invoked>>

RequestSession ==
    /\ work' = [work EXCEPT !.worker = "request_session",
                            !.handle = request_session(work.host)]
    /\ UNCHANGED link_frame

RequestDriver ==
    /\ work' = [work EXCEPT !.worker = "request_driver",
                            !.handle = request_driver(work.host)]
    /\ UNCHANGED link_frame

NextLink ==
    \/ RequestSession
    \/ RequestDriver

SpecLink == InitLink /\ [][NextLink]_vars

\* the host is under the .onion pseudo-TLD
EndsWithOnion(host) ==
    /\ Len(host) >= 2
    /\ host[Len(host) - 1] = "." /\ host[Len(host)] = "onion"

\* C20: request_session and request_driver return the Tor session and driver
\* if and only if the link's host ends with '.onion'; every other host,
\* including one that merely contains '.onion' before another suffix, gets
\* the normal session and driver.
C20_Classifier ==
    /\ work.worker = "request_session" =>
          work.handle = IF EndsWithOnion(work.host) THEN "tor_session" ELSE "norm_session"
    /\ work.worker = "request_driver" =>
          work.handle = IF EndsWithOnion(work.host) THEN "tor_driver" ELSE "norm_driver"

\* ---------------------------------------------------------------------------
\* SpecBoth: the same queue calls applied to both backends side by side.
\* ---------------------------------------------------------------------------

InitBoth ==
    /\ FLAG_DB = FALSE /\ REDIS_LOCK = FALSE
    /\ TIME_CACHE \in {None} \cup 1..MaxCache
    /\ namespace \in Stages
    /\ now = 0
    /\ queue_hostname = {} /\ queue_requests = {} /\ queue_selenium = {}
    /\ HostnameQueueModel = {} /\ RequestsQueueModel = {} /\ SeleniumQueueModel = {}
    /\ last = [op |-> "init", redis |-> {}, db |-> {}]
    /\ drawn = <<>>
    /\ lock = <<>> /\ pc = <<>> /\ loc = <<>> /\ hist = <<>>
    /\ call = <<>> /\ QUEUE_REQUESTS = <<>> /\ QUEUE_SELENIUM = <<>>
    /\ work = <<>> /\ invoked = 0

\* db.py:365-399, 525-557: save_requests / save_selenium, once per backend
BothSave(entries, single, score, nx, xx) ==
    /\ IF namespace = "requests"
       THEN /\ queue_requests' =
                  _save_requests_redis(queue_requests, entries, single, score, nx, xx, now)
            /\ RequestsQueueModel' =
                  _save_requests_db(RequestsQueueModel, entries, single, score, nx, xx, now)
            /\ UNCHANGED <<queue_selenium, SeleniumQueueModel>>
       ELSE /\ queue_selenium' =
                  _save_selenium_redis(queue_selenium, entries, single, score, nx, xx, now)
            /\ SeleniumQueueModel' =
                  _save_selenium_db(SeleniumQueueModel, entries, single, score, nx, xx, now)
            /\ UNCHANGED <<queue_requests, RequestsQueueModel>>
    /\ last' = [op |-> "save", redis |-> {}, db |-> {}]
    /\ UNCHANGED <<config, crawl_state, call, now, queue_hostname, HostnameQueueModel,
                   drawn, proc_state>>

\* db.py:275-289, 320-334: drop_requests / drop_selenium, once per backend
BothDrop(link) ==
    /\ IF namespace = "requests"
       THEN /\ queue_requests' = _drop_requests_redis(queue_requests, link)
            /\ RequestsQueueModel' = _drop_requests_db(RequestsQueueModel, link).table
            /\ UNCHANGED <<queue_selenium, SeleniumQueueModel>>
       ELSE /\ queue_selenium' = _drop_selenium_redis(queue_selenium, link)
            /\ SeleniumQueueModel' = _drop_selenium_db(SeleniumQueueModel, link).table
            /\ UNCHANGED <<queue_requests, RequestsQueueModel>>
    /\ last' = [op |-> "drop", redis |-> {}, db |-> {}]
    /\ UNCHANGED <<config, crawl_state, call, now, queue_hostname, HostnameQueueModel,
                   drawn, proc_state>>

\* db.py:693-728, 804-839: load_requests / load_selenium, once per backend
BothLoad ==
    /\ IF namespace = "requests"
       THEN \E answer \in SelectDue(RequestsQueueModel, MaxScore(now)) :
              LET r == _load_requests_redis(queue_requests, now)
                  d == _load_requests_db(RequestsQueueModel, answer, now)
              IN  /\ queue_requests' = r.zset
                  /\ RequestsQueueModel' = d.table
                  /\ last' = [op |-> "load", redis |-> Range(r.link_pool), db |-> Range(d.link_pool)]
                  /\ UNCHANGED <<queue_selenium, SeleniumQueueModel>>
       ELSE \E answer \in SelectDue(SeleniumQueueModel, MaxScore(now)) :
              LET r == _load_selenium_redis(queue_selenium, now)
                  d == _load_selenium_db(SeleniumQueueModel, answer, now)
              IN  /\ queue_selenium' = r.zset
                  /\ SeleniumQueueModel' = d.table
                  /\ last' = [op |-> "load", redis |-> Range(r.link_pool), db |-> Range(d.link_pool)]
                  /\ UNCHANGED <<queue_requests, RequestsQueueModel>>
    /\ UNCHANGED <<config, crawl_state, call, now, queue_hostname, HostnameQueueModel,
                   drawn, proc_state>>

NextBoth ==
    \/ Tick
    \/ \E b \in Batches, s \in Scores \cup {None}, m \in Modes :
           BothSave(b, FALSE, s, m[1], m[2])
    \/ \E l \in Links, s \in Scores \cup {None}, m \in Modes :
           BothSave(l, TRUE, s, m[1], m[2])
    \/ \E l \in Links : BothDrop(l)
    \/ BothLoad

SpecBoth == InitBoth /\ [][NextBoth]_vars

\* the queued (url, score) pairs of a stage in each backend
RedisView(stage) == ZView(IF stage = "requests" THEN queue_requests ELSE queue_selenium)
DbView(stage) == TView(IF stage = "requests" THEN RequestsQueueModel ELSE SeleniumQueueModel)

\* C21: after every sequence of save, drop and load calls applied to both
\* backends from the same initial state with the same clock values, the
\* ordered-set backend and the relational backend hold the same queued URLs
\* with the same scores, and every load returned the same set of links.
C21_BackendsInterchangeable ==
    /\ RedisView(namespace) = DbView(namespace)
    /\ last.op = "load" => last.redis = last.db

\* the due entries of a view at time t
DueIn(view, t) == {e \in view : e.score <= DueScore(t)}
\* a load at time t has to choose among due entries of equal score
TieInDue(view, t) ==
    /\ Cardinality(DueIn(view, t)) > MAX_POOL
    /\ \E a, b \in DueIn(view, t) : a # b /\ a.score = b.score
\* the links are MaxPool lowest-scored due entries of the view
LowestDue(view, links, t) ==
    LET due == DueIn(view, t)
        got == {e \in due : \E l \in links : l.url = e.url}
    IN  /\ \A l \in links : \E e \in due : e.url = l.url
        /\ Cardinality(got) = Min(MAX_POOL, Cardinality(due))
        /\ \A a \in got, b \in due \ got : a.score <= b.score

\* C21 (amended): from a state in which the two backends hold the same URLs
\* with the same scores, a save or a drop leaves them so; a load returns in
\* each backend MaxPool lowest-scored due entries, and unless it had to
\* choose among due entries of equal score it returns the same links in both
\* and leaves the two backends with the same URLs and scores.
C21_InterchangeableUpToTies ==
    [][RedisView(namespace) = DbView(namespace) =>
          /\ last'.op \in {"save", "drop"} => RedisView(namespace)' = DbView(namespace)'
          /\ last'.op = "load" /\ now' = now =>
                /\ LowestDue(RedisView(namespace), last'.redis, now)
                /\ LowestDue(DbView(namespace), last'.db, now)
                /\ ~TieInDue(RedisView(namespace), now) =>
                      /\ last'.redis = last'.db
                      /\ RedisView(namespace)' = DbView(namespace)']_vars

\* both backends returned the same non-empty batch and re-scored it
C21_Witness ==
    /\ last.op = "load" /\ last.redis # {} /\ last.redis = last.db
    /\ TIME_CACHE # None
    /\ Cardinality(RedisView(namespace)) >= 2
    /\ RedisView(namespace) = DbView(namespace)
    /\ \E e \in RedisView(namespace) : e.score > now

\* the backend calls that db.py makes through _redis_command
ThroughRedisCommand(kind) == kind \in {"lock", "command"}
\* _redis_command is running the k-th backend call of the public function
InRedisCommand(k) ==
    /\ call.state = "running" /\ call.i = k
    /\ k \in DOMAIN call.plan /\ ThroughRedisCommand(call.plan[k])

\* C22: _redis_command never propagates an exception of the backend method:
\* a failing attempt leaves it running the same call, with nothing returned;
\* it returns only by an attempt that succeeded, with that attempt's value;
\* and if the backend does not fail forever, it eventually returns.
C22_RetryLiveness ==
    /\ [][\A k \in 1..4 : InRedisCommand(k) =>
             \/ /\ call'.state = "running" /\ call'.i = k
                /\ call'.exc = "none" /\ call'.value = call.value
             \/ /\ call'.i = k + 1 /\ call'.exc = "none"
                /\ call'.value = call'.reply /\ call'.value # {}]_vars
    /\ \A k \in 1..4 : InRedisCommand(k) ~> ~InRedisCommand(k)

\* a Redis function returned after an attempt of its command had failed
C22_Witness ==
    /\ call.state = "returned" /\ call.warned >= 1
    /\ ~FLAG_DB /\ ~REDIS_LOCK /\ call.value # {}

----------------------------------------------------------------------------
(* Claims checked under SpecProc: locks *)

\* process p is inside a with statement of the run's namespace: past the
\* acquisition and not yet past the release
InCritical(p) == pc[p] \in {"cmd", "unlock"} \/ loc[p].inner
\* process p executes a Redis command on the namespace's key in this step
Command(p) == Sadd(p) \/ Srem(p) \/ Zrem(p) \/ Zadd(p) \/ Zrangebyscore(p)

\* C23: with REDIS_LOCK on, at most one process is inside a critical section
\* of a namespace, that process holds the namespace's lock, and every sadd,
\* srem, zadd, zrem and zrangebyscore on the namespace is executed by the
\* process that holds its lock.
C23_LockingDiscipline ==
    /\ [](REDIS_LOCK =>
            /\ \A p, q \in Procs : InCritical(p) /\ InCritical(q) => p = q
            /\ \A p \in Procs : InCritical(p) => lock[namespace] = {p})
    /\ [][\A p \in Procs : REDIS_LOCK /\ Command(p) => lock[namespace] = {p}]_vars

\* a process has executed its command under the lock while another waits
C23_Witness ==
    /\ REDIS_LOCK
    /\ \E p, q \in Procs :
          /\ p # q /\ pc[p] = "unlock" /\ lock[namespace] = {p}
          /\ pc[q] = "lock" /\ loc[q].op # "idle"

\* C24: with REDIS_LOCK on, a queue lock whose holder stops making progress
\* inside the critical section is eventually released, so that a save, drop
\* or load call of another process waiting for that lock eventually proceeds.
C24_LockAutoRelease ==
    /\ (REDIS_LOCK /\ lock[namespace] # NoToken) ~> (lock[namespace] = NoToken)
    /\ \A q \in Procs :
          (REDIS_LOCK /\ pc[q] = "lock" /\ ~loc[q].inner) ~> (pc[q] # "lock")

----------------------------------------------------------------------------
(* SpecBulk: batch saves, with the backend writes each one issues *)

\* The writes of a batch save, each as the list of entries it carries.
\* Redis: one zadd per slice entries[i:i + BULK_SIZE] (db.py:510-515,
\* 678-683).  Relational: replace_many(batch) per chunk (db.py:457-458,
\* 615-616); with nx insert_many(insert_many), the whole list, once per chunk
\* (db.py:435-439, 593-597); with xx one UPDATE (db.py:444-447, 602-605).
BatchWrites(flag_db, entries, nx, xx) ==
    IF flag_db /\ ~nx /\ xx THEN (IF entries = <<>> THEN <<>> ELSE <<entries>>)
    ELSE [k \in 1..ChunkCount(entries, BULK_SIZE) |->
             IF flag_db /\ nx THEN entries ELSE Chunk(entries, BULK_SIZE, k - 1)]

\* db.py:365-399, 525-557: save_requests / save_selenium of a list
SaveBatch(entries, score, nx, xx) ==
    /\ namespace \in Stages
    /\ IF namespace = "requests"
       THEN /\ queue_requests' = IF FLAG_DB THEN queue_requests ELSE
                  _save_requests_redis(queue_requests, entries, FALSE, score, nx, xx, now)
            /\ RequestsQueueModel' = IF ~FLAG_DB THEN RequestsQueueModel ELSE
                  _save_requests_db(RequestsQueueModel, entries, FALSE, score, nx, xx, now)
            /\ UNCHANGED <<queue_selenium, SeleniumQueueModel>>
       ELSE /\ queue_selenium' = IF FLAG_DB THEN queue_selenium ELSE
                  _save_selenium_redis(queue_selenium, entries, FALSE, score, nx, xx, now)
            /\ SeleniumQueueModel' = IF ~FLAG_DB THEN SeleniumQueueModel ELSE
                  _save_selenium_db(SeleniumQueueModel, entries, FALSE, score, nx, xx, now)
            /\ UNCHANGED <<queue_requests, RequestsQueueModel>>
    /\ last' = [op |-> "save_batch", entries |-> entries, nx |-> nx, xx |-> xx,
                writes |-> BatchWrites(FLAG_DB, entries, nx, xx)]
    /\ UNCHANGED <<config, crawl_state, call, now, queue_hostname, HostnameQueueModel,
                   drawn, proc_state>>

SpecBulk ==
    Init /\ [][\E b \in Batches, s \in Scores \cup {None}, m \in Modes :
                  SaveBatch(b, s, m[1], m[2])]_vars

\* the entries of the writes, one write after the other
RECURSIVE Concat(_)
Concat(writes) == IF writes = <<>> THEN <<>> ELSE Head(writes) \o Concat(Tail(writes))

\* C25: a batch save of n entries, in replace or nx mode and in either
\* backend, issues ceil(n / BULK_SIZE) writes, each of at most BULK_SIZE
\* entries, and the writes together carry every entry exactly once.
C25_BulkGrouping ==
    last.op = "save_batch" /\ ~last.xx =>
        /\ Len(last.writes) = (Len(last.entries) + BULK_SIZE - 1) \div BULK_SIZE
        /\ \A k \in DOMAIN last.writes : Len(last.writes[k]) <= BULK_SIZE
        /\ Concat(last.writes) = last.entries

----------------------------------------------------------------------------
(* Claims checked under Spec: the frame of a draw *)

\* the URLs queued in a stage
QueuedUrls(stage) == {e.url : e \in Entries(stage)}
\* a load of the stage in this step neither added nor removed an entry, and
\* left the score of every entry it did not return
DrawFrame(stage) ==
    /\ QueuedUrls(stage)' = QueuedUrls(stage)
    /\ \A e \in Entries(stage) :
          (\A l \in last'.links : l.url # e.url) => e \in Entries(stage)'
\* the batches a load of the stage would return now
Reload(stage) ==
    IF FLAG_DB
    THEN {Range(RowList(answer)) :
            answer \in SelectDue(IF stage = "requests" THEN RequestsQueueModel
                                 ELSE SeleniumQueueModel, MaxScore(now))}
    ELSE {Range(LoadsAll(ZRANGEBYSCORE(IF stage = "requests" THEN queue_requests
                                       ELSE queue_selenium, 0, MaxScore(now), 0, MAX_POOL)))}

\* C26: load_requests() and load_selenium() never add or remove a queue entry
\* and never change the score of an entry they do not return; with
\* TIME_CACHE None they change no score at all, so a repeated load returns
\* the same entries.
C26_DrawFrame ==
    [][/\ load_requests =>
            /\ DrawFrame("requests")
            /\ TIME_CACHE = None =>
                  /\ Entries("requests")' = Entries("requests")
                  /\ Reload("requests")' = {last'.links}
       /\ load_selenium =>
            /\ DrawFrame("selenium")
            /\ TIME_CACHE = None =>
                  /\ Entries("selenium")' = Entries("selenium")
                  /\ Reload("selenium")' = {last'.links}]_vars

\* C26 (amended): as C26, but the repeated load returns the same entries when
\* the backend is Redis or no two due entries compete for the batch with equal
\* scores; otherwise it returns MaxPool lowest-scored due entries of the same
\* unchanged queue, of which the batch returned before is one choice.
C26_DrawFrameUpToTies ==
    [][/\ load_requests =>
            /\ DrawFrame("requests")
            /\ TIME_CACHE = None =>
                  /\ Entries("requests")' = Entries("requests")
                  /\ last'.links \in Reload("requests")'
                  /\ \A links \in Reload("requests")' :
                        LowestDue(Entries("requests"), links, now)
                  /\ ~FLAG_DB \/ ~TieInDue(Entries("requests"), now) =>
                        Reload("requests")' = {last'.links}
       /\ load_selenium =>
            /\ DrawFrame("selenium")
            /\ TIME_CACHE = None =>
                  /\ Entries("selenium")' = Entries("selenium")
                  /\ last'.links \in Reload("selenium")'
                  /\ \A links \in Reload("selenium")' :
                        LowestDue(Entries("selenium"), links, now)
                  /\ ~FLAG_DB \/ ~TieInDue(Entries("selenium"), now) =>
                        Reload("selenium")' = {last'.links}]_vars

\* a load returned and re-scored one entry and left another as it was
C26_Witness ==
    /\ last.op = "load_requests" /\ last.links # {}
    /\ TIME_CACHE # None
    /\ \E e, f \in Entries("requests") :
          /\ e.score = now + TIME_CACHE /\ \E l \in last.links : l.url = e.url
          /\ f.score <= now - TIME_CACHE /\ \A l \in last.links : l.url # f.url

----------------------------------------------------------------------------
(* Claims checked under SpecCrawl: requeue and ordering *)

\* the loader invocation just made failed: a driver or transport exception
\* of the hook, an empty page, or an exception nobody expected
LoaderFailed ==
    /\ Loaded
    /\ \/ Did("loader_hook", "HTTPError") \/ Did("loader_hook", "WebDriverException")
       \/ Did("page_source", FALSE)
       \/ Times("except") > 0 /\ ~Did("loader_hook", "LinkNoReturn")

\* C27: every loader((ts, u)) invocation that fails by a driver or transport
\* exception in the hook, by an empty page or by an unexpected exception
\* writes no rendered HTML, enqueues nothing into stage-1, and ends by putting
\* the pair (ts, u) it was given back into the stage-2 queue.
C27_Stage2FailureRequeue ==
    LoaderFailed =>
        /\ Times("save_html") = 0
        /\ Times("put1") = 0
        /\ Times("put2") = 1
        /\ work.trace[Len(work.trace)] = [ev |-> "put2", arg |-> work.entry]

\* the invocation just made found its artifact cached
CacheHit == Did("has_raw", TRUE) \/ Did("has_html", TRUE)
\* the j-th event is an enqueue derived from the response or the page: an
\* extracted link, or the (timestamp, url) entry crawler hands to stage-2
DerivedPut(j) ==
    /\ ~InBootstrap(j)
    /\ \/ /\ work.trace[j].ev \in {"put1", "put2"}
          /\ \E i \in 1..(j - 1) : work.trace[i].ev = "extract_links"
       \/ Crawled /\ work.trace[j].ev = "put2"
\* the i-th event is the completed artifact write of the worker's stage, or
\* the cache check that found the artifact written by an earlier invocation
ArtifactAt(i) ==
    \/ /\ work.trace[i].ev = "save_html"
       /\ work.trace[i].arg = IF Crawled THEN "raw" ELSE "rendered"
    \/ work.trace[i].ev \in {"has_raw", "has_html"} /\ CacheHit

\* C28: within one crawler or loader invocation every enqueue derived from
\* the fetched response or rendered page (the extracted links, and the
\* (timestamp, url) entry for stage-2) comes after the completed save_html of
\* that response (raw in crawler, rendered in loader); no invocation enqueues
\* derived links without the artifact having been written.
C28_WriteBeforeEnqueue ==
    (Crawled \/ Loaded) =>
        \A j \in DOMAIN work.trace :
            DerivedPut(j) => \E i \in 1..(j - 1) : ArtifactAt(i)

\* a crawler fetched a page, wrote it, and enqueued a link of it and the
\* stage-2 entry
C28_Witness ==
    /\ Crawled /\ ~CacheHit
    /\ Did("save_html", "raw") /\ Times("put1") >= 1 /\ Times("put2") = 1
    /\ Extracted >= 1

----------------------------------------------------------------------------
(* Claims checked under SpecProc: the draw *)

\* process p waits to acquire the lock that p itself holds: only p's own
\* release could end the wait, and p does not reach it while it waits
WaitsForItself(p) == pc[p] = "lock" /\ lock[namespace] = {p}

\* C29: with REDIS_LOCK on and TIME_CACHE set, a load that has acquired its
\* queue lock and read a non-empty batch terminates and releases the lock:
\* the re-scoring save it makes while holding the lock never waits for that
\* same lock.
C29_NoSelfDeadlockInDraw ==
    REDIS_LOCK /\ TIME_CACHE # None =>
        \A p \in Procs :
            loc[p].op = "load" /\ loc[p].entries # <<>> => ~WaitsForItself(p)

\* process p is in a load that has read its batch and has not yet written a
\* new score
ReadNotRescored(p) ==
    loc[p].op = "load" /\ loc[p].inner /\ loc[p].i = 0 /\ pc[p] \in {"lock", "cmd"}

\* C30: with REDIS_LOCK off and TIME_CACHE set, however the commands of two
\* loads of different processes interleave, no queue entry is in the batch of
\* both: two loads that have both read, neither having re-scored yet, hold
\* no entry in common.
C30_NoDoubleDraw ==
    ~REDIS_LOCK /\ TIME_CACHE # None =>
        \A p, q \in Procs :
            p # q /\ ReadNotRescored(p) /\ ReadNotRescored(q) =>
                Range(loc[p].entries) \cap Range(loc[q].entries) = {}

\* link l is in no entry of the run's stage queue
Absent(l) == \A e \in Queue : pickle_loads(e.member) # l
\* a save call naming l is under way in some process
SaveUnderWay(l) ==
    \E p \in Procs : loc[p].op = "save" /\ l \in Range(loc[p].entries)

\* a drop call naming l is under way in some process
DropUnderWay(l) ==
    \E p \in Procs : loc[p].op = "drop" /\ l \in Range(loc[p].entries)

\* C31: with REDIS_LOCK off, however a drop_requests(l) of one process and a
\* load_requests() of another interleave, once l is gone from the stage-1
\* queue, its drop has returned and no save_requests naming l is under way
\* or issued, l stays absent: the re-scoring write of a draw never puts a dropped entry back.
C31_DropNotUndoneByDraw ==
    [][\A l \in ProcLinks :
          (~REDIS_LOCK /\ namespace = "requests" /\ Absent(l) /\ ~DropUnderWay(l)
                      /\ ~SaveUnderWay(l))
              => Absent(l)']_vars

\* the j-th event is the put of a link extracted from the body: one of the
\* puts that follow extract_links, one per link it returned
FromBody(j) ==
    \E x \in DOMAIN work.trace :
        /\ work.trace[x].ev = "extract_links"
        /\ x < j /\ j <= x + Len(work.trace[x].arg)
\* the j-th event is a terminal action on the worker's own entry: a requeue
\* into stage-1 or the forward to stage-2
OwnPut(j) ==
    /\ work.trace[j].ev \in {"put1", "put2"}
    /\ ~FromBody(j) /\ ~InBootstrap(j)

\* C32: in every crawler(u) invocation, leaving aside the links extracted
\* from the body (and the sitemap URLs of the host bootstrap), the worker's
\* own entry gets at most one terminal action: it is not both requeued into
\* stage-1 and forwarded to stage-2, and not requeued twice.
C32_SingleTerminalOutcome ==
    Crawled => Cardinality({j \in DOMAIN work.trace : OwnPut(j)}) <= 1

====
